---- MODULE Spec2Model ----
(***************************************************************************)
(* Paper-trading ledger of Raite: orders, holdings and positions as the    *)
(* services and repositories under src/ keep them.  Every database query   *)
(* is one atomic step; a service method is a task that walks through its   *)
(* queries, so that two callers interleave at the awaits as they do in the *)
(* running server.  Numbers are exact: quantities and prices are integers, *)
(* the derived money columns are rationals <<numerator, denominator>>.     *)
(***************************************************************************)
EXTENDS Integers, Sequences, FiniteSets, TLC

\* ---------------------------------------------------------------- bounds
MaxOrders == 2
MaxCalls == 3
MaxBars == 4
MaxBacktests == 1
MaxRunBars == 7
MaxRuns == 2
MaxCrossBars == 8
MaxTrades == 3
MaxBatch == 2
MaxEpoch == 3
MaxStores == 2
MaxDescent == 6

Instruments == {"A"}
\* the instruments of the runs that look at two instruments side by side
AllInstruments == {"A", "B"}
Tasks == {"t1", "t2"}
Sides == {"BUY", "SELL"}
\* what a caller may send: valid values and the invalid ones around zero
QtyInputs == {-1, 0, 1, 2}
PriceInputs == {-1, 0, 1, 2}
ValidPrices == {1, 2}
OrderIds == 1 .. (MaxOrders + 1)
\* the close prices of a stored candle series, oldest first
BarSeries == UNION {[1 .. n -> ValidPrices] : n \in 0 .. MaxBars}

\* the closes of the series a backtest is run over on its own: four levels, so that a
\* position can be opened after a rise and closed above its entry price
RunPrices == {1, 2, 3, 4}
RunBarSeries == UNION {[1 .. n -> RunPrices] : n \in 0 .. MaxRunBars}
\* the closes of longer series on three levels: room for two golden crosses with no
\* death cross between them, and two death crosses after
CrossPrices == {1, 2, 3}
CrossBarSeries == UNION {[1 .. n -> CrossPrices] : n \in 0 .. MaxCrossBars}
\* the pnl of the closed positions a drawdown is computed over: prices are
\* DECIMAL(18, 8), so a pnl may lie strictly between 0 and 1
TradePnls == {<<-1, 1>>, <<-1, 2>>, <<1, 2>>, <<1, 1>>, <<2, 1>>}
TradePnlSeries == UNION {[1 .. n -> TradePnls] : n \in 0 .. MaxTrades}
\* the candles of the batches handed to storeCandles: up to MaxBatch candles on
\* MaxEpoch epochs, in any order and with epochs repeated, and the empty batch
StoreEpochs == 1 .. MaxEpoch
StoreCandleData ==
  {[epoch_time |-> e, close_price |-> c, open_interest |-> o] :
     e \in StoreEpochs, c \in {2000, 2020}, o \in {200, 210}}
StoreBatches == UNION {[1 .. n -> StoreCandleData] : n \in 0 .. MaxBatch}
\* the closes of the series that several backtests are run over
TwinBarSeries == UNION {[1 .. n -> RunPrices] : n \in 0 .. MaxBars}

\* the close prices and open interests of the candles handed to the classifier:
\* validateCandles admits close > 0 and oi >= 0 only. The values sit on both sides of
\* the thresholds: 2000 -> 2001 is 0.05%, 2000 -> 2002 is 0.1%, 2000 -> 2020 is 1%;
\* 200 -> 201 is 0.5%, 200 -> 202 is 1%, 200 -> 210 is 5%; and of the confidence
\* levels: 2000 -> 2004 is 0.2%, 2000 -> 2010 is 0.5%, 200 -> 204 is 2%
ClosePrices == {1998, 1999, 2000, 2001, 2002, 2004, 2010, 2020}
OpenInterests == {0, 198, 199, 200, 201, 202, 204, 210}

\* the wall-clock time of the ledger's calls (new Date(), NOW()): the calls are taken
\* as made at one instant, later than every stored bar
Now == MaxBars + 1

\* analyzeAndUpdateOIInterpretations: getCandles(..., limit: 100000) and batchSize = 1000
AnalysisLimit == 100000
DefaultBatchSize == 1000
\* storeCandles: getCandles(..., limit: 10)
ContextLimit == 10
\* the one timeframe of the stored series
Timeframe == "1m"

\* program constants of the backtest simulator
DefaultShortPeriod == 10
DefaultLongPeriod == 20
SimulationQuantity == 100
\* getPositions(instrument, status, strategyId, limit = 100, offset = 0)
DefaultLimit == 100

\* ------------------------------------------------------------ arithmetic
Abs(x) == IF x < 0 THEN -x ELSE x

Min(a, b) == IF a <= b THEN a ELSE b

Max(a, b) == IF a >= b THEN a ELSE b

RECURSIVE Gcd(_, _)
Gcd(a, b) == IF b = 0 THEN a ELSE Gcd(b, a % b)

\* the rational n/d in lowest terms with a positive denominator
Norm(n, d) ==
  LET s == IF d < 0 THEN -1 ELSE 1
      g == Gcd(Abs(n), Abs(d))
  IN  <<(s * n) \div g, (s * d) \div g>>

Rat(n) == <<n, 1>>
RAdd(a, b) == Norm(a[1] * b[2] + b[1] * a[2], a[2] * b[2])
RSub(a, b) == Norm(a[1] * b[2] - b[1] * a[2], a[2] * b[2])
RMul(a, b) == Norm(a[1] * b[1], a[2] * b[2])
RDiv(a, b) == Norm(a[1] * b[2], a[2] * b[1])
RZero == Rat(0)
RLess(a, b) == a[1] * b[2] < b[1] * a[2]
RLeq(a, b) == a[1] * b[2] <= b[1] * a[2]

\* an optional value: <<>> is undefined / null / no row, <<v>> is v
None == <<>>
Some(v) == <<v>>

\* JavaScript's a || b on numbers: undefined, null and 0 are falsy
OrElse(opt, dflt) == IF opt = None THEN dflt ELSE IF opt[1] = 0 THEN dflt ELSE opt[1]

RAbs(a) == <<Abs(a[1]), a[2]>>

\* ----------------------------------------------------------------- state
VARIABLES
  orders,     \* table orders: sequence of rows, the id is the index
  holdings,   \* table holdings: instrument -> row, for the instruments that have one
  positions,  \* table positions: sequence of rows, the id is the index
  tasks,      \* the service calls in flight, one per caller
  calls,      \* the number of calls made so far, where the specification bounds it
  runs,       \* the number of backtests started so far
  fillSum,    \* history: per instrument, the signed quantity of the fills applied
  deltaSum,   \* history: per instrument, the realized deltas handed to updateHolding
  candleTable,     \* table candles: sequence of rows, the id is the index
  strategyResults  \* table strategy_results: sequence of rows, in insertion order

vars == <<orders, holdings, positions, tasks, calls, runs, fillSum, deltaSum,
         candleTable, strategyResults>>

IdleTask ==
  [op |-> "idle", pc |-> "idle", result |-> "none", orderId |-> 0,
   argQ |-> None, argP |-> None, finalQ |-> 0, finalP |-> 0,
   ord |-> None, hold |-> None, calc |-> None,
   posId |-> 0, price |-> 0, pos |-> None, instrument |-> "", todo |-> <<>>,
   realized0 |-> None,
   candles |-> <<>>, idx |-> 0, simPositions |-> <<>>, strategy |-> None,
   batchSize |-> 0, updatedCount |-> 0]

Init ==
  /\ orders = <<>>
  /\ holdings = [i \in {} |-> 0]
  /\ positions = <<>>
  /\ tasks = [t \in Tasks |-> IdleTask]
  /\ calls = 0
  /\ runs = 0
  /\ fillSum = [i \in AllInstruments |-> 0]
  /\ deltaSum = [i \in AllInstruments |-> RZero]
  /\ candleTable = <<>>
  /\ strategyResults = <<>>

AllIdle == \A t \in Tasks : tasks[t].op = "idle"

\* a finished call returns to its caller before anything else happens: nothing but
\* Return is enabled while a result is waiting
Returning == \E u \in Tasks : tasks[u].pc \in {"done", "failed"}

At(t, label) == tasks[t].pc = label /\ ~Returning

\* a call ends by throwing err: only the error is left to return
Throw(t, op, err) ==
  tasks' = [tasks EXCEPT ![t] = [IdleTask EXCEPT !.op = op, !.pc = "failed", !.result = err]]

Goto(t, rec) == tasks' = [tasks EXCEPT ![t] = rec]

\* ------------------------------------------------------------ repositories
\* HoldingRepository.getHolding: result.rows[0] || null
GetHolding(instrument) ==
  IF instrument \in DOMAIN holdings THEN Some(holdings[instrument]) ELSE None

\* an upsert that overwrites realized_pnl instead of adding to it
UpdateHoldingOverwrite(h, instrument, quantity, averagePrice, realizedPnl) ==
  [i \in DOMAIN h \cup {instrument} |->
     IF i = instrument
     THEN [quantity |-> quantity, average_price |-> averagePrice,
           total_value |-> RMul(Rat(quantity), averagePrice),
           unrealized_pnl |-> IF i \in DOMAIN h THEN h[i].unrealized_pnl ELSE RZero,
           realized_pnl |-> realizedPnl]
     ELSE h[i]]

\* HoldingRepository.updateHolding: INSERT ... ON CONFLICT (instrument) DO UPDATE
UpdateHolding(h, instrument, quantity, averagePrice, realizedPnl) ==
  LET totalValue == RMul(Rat(quantity), averagePrice)
  IN  IF instrument \in DOMAIN h
      THEN [h EXCEPT ![instrument] =
              [@ EXCEPT !.quantity = quantity,
                        !.average_price = averagePrice,
                        !.total_value = totalValue,
                        !.realized_pnl = RAdd(@, realizedPnl)]]
      ELSE [i \in DOMAIN h \cup {instrument} |->
              IF i = instrument
              THEN [quantity |-> quantity, average_price |-> averagePrice,
                    total_value |-> totalValue, unrealized_pnl |-> RZero,
                    realized_pnl |-> realizedPnl]
              ELSE h[i]]

\* PositionRepository.getPositionById: result.rows[0] || null
GetPositionById(id) ==
  IF id \in 1 .. Len(positions) THEN Some(positions[id]) ELSE None

\* a P&L that forgets the side
CalculatePnlLongOnly(position, currentPrice) ==
  (currentPrice - position.entry_price) * position.quantity

\* PositionRepository.calculatePnl
CalculatePnl(position, currentPrice) ==
  LET priceDiff == IF position.side = "BUY"
                   THEN currentPrice - position.entry_price
                   ELSE position.entry_price - currentPrice
  IN  priceDiff * position.quantity

\* the row PositionRepository.createPosition inserts (status and pnl by column default)
NewPosition(instrument, side, entryPrice, quantity, entryTime, strategyId) ==
  [instrument |-> instrument, side |-> side, entry_price |-> entryPrice,
   exit_price |-> None, quantity |-> quantity, status |-> "OPEN", pnl |-> 0,
   entry_time |-> entryTime, exit_time |-> None, strategy_id |-> strategyId]

\* the row OrderRepository.createOrder inserts; order_time is orderData.order_time
\* || new Date(), of which only the time of the call is modelled
NewOrder(instrument, side, quantity, price) ==
  [instrument |-> instrument, side |-> side, quantity |-> quantity, price |-> price,
   status |-> "PENDING", filled_quantity |-> 0, filled_price |-> None,
   order_time |-> Now, filled_time |-> None]

\* ---------------------------------------------------------------- service
\* PaperTradingService.validateOrderData, the checks on quantity and price
ValidateOrderData(quantity, price) == quantity > 0 /\ price > 0

\* a same-direction branch whose average price is the plain mean of the two prices
SameDirectionPlainMean(currentQuantity, currentAveragePrice, orderQuantity, orderPrice) ==
  [newQuantity |-> currentQuantity + orderQuantity,
   newAveragePrice |-> RDiv(RAdd(currentAveragePrice, orderPrice), Rat(2)),
   realizedPnL |-> RZero]

\* PaperTradingService.updateHoldingFromOrder, the same-direction branch
SameDirection(currentQuantity, currentAveragePrice, orderQuantity, orderPrice) ==
  LET totalValue == RAdd(RMul(Rat(currentQuantity), currentAveragePrice),
                         RMul(Rat(orderQuantity), orderPrice))
      newQuantity == currentQuantity + orderQuantity
  IN  [newQuantity |-> newQuantity,
       newAveragePrice |-> RDiv(totalValue, Rat(newQuantity)),
       realizedPnL |-> RZero]

\* a realized P&L over the whole order quantity instead of the closing quantity
ClosingPnLWholeOrder(currentQuantity, currentAveragePrice, orderQuantity, orderPrice) ==
  IF currentQuantity > 0
  THEN RMul(Rat(Abs(orderQuantity)), RSub(orderPrice, currentAveragePrice))
  ELSE RMul(Rat(Abs(orderQuantity)), RSub(currentAveragePrice, orderPrice))

\* PaperTradingService.updateHoldingFromOrder, the realized P&L of the opposite-direction branch
ClosingPnL(currentQuantity, currentAveragePrice, orderQuantity, orderPrice) ==
  LET closingQuantity == Min(Abs(currentQuantity), Abs(orderQuantity))
  IN  IF currentQuantity > 0
      THEN RMul(Rat(closingQuantity), RSub(orderPrice, currentAveragePrice))
      ELSE RMul(Rat(closingQuantity), RSub(currentAveragePrice, orderPrice))

\* an opposite-direction branch that keeps the average price of a holding that goes flat
OppositeAveragePriceKept(newQuantity, currentAveragePrice, orderQuantity, orderPrice) ==
  IF Abs(newQuantity) = Abs(orderQuantity) THEN orderPrice
  ELSE currentAveragePrice

\* PaperTradingService.updateHoldingFromOrder, the average price of the opposite-direction branch
OppositeAveragePrice(newQuantity, currentAveragePrice, orderQuantity, orderPrice) ==
  IF newQuantity = 0 THEN RZero
  ELSE IF Abs(newQuantity) = Abs(orderQuantity) THEN orderPrice
  ELSE currentAveragePrice

\* PaperTradingService.updateHoldingFromOrder, the opposite-direction branch
OppositeDirection(currentQuantity, currentAveragePrice, orderQuantity, orderPrice) ==
  LET newQuantity == currentQuantity + orderQuantity
  IN  [newQuantity |-> newQuantity,
       newAveragePrice |->
         OppositeAveragePrice(newQuantity, currentAveragePrice, orderQuantity, orderPrice),
       realizedPnL |-> ClosingPnL(currentQuantity, currentAveragePrice, orderQuantity, orderPrice)]

\* a signed quantity that forgets the side
SignedQuantityUnsigned(order) == order.filled_quantity

\* the signed quantity of a filled order: order.side === 'BUY' ? filled_quantity : -filled_quantity
SignedQuantity(order) ==
  IF order.side = "BUY" THEN order.filled_quantity ELSE -order.filled_quantity

\* order.filled_price || order.price
FillPrice(order) == OrElse(order.filled_price, order.price)

\* PaperTradingService.updateHoldingFromOrder up to its updateHolding call: what it
\* computes from the holding it read (existingHolding) and the filled order
HoldingFromOrder(existingHolding, order) ==
  IF existingHolding = None
  THEN [newQuantity |-> SignedQuantity(order),
        newAveragePrice |-> Rat(FillPrice(order)), realizedPnL |-> RZero]
  ELSE IF existingHolding[1].quantity = 0
  THEN [newQuantity |-> SignedQuantity(order),
        newAveragePrice |-> Rat(FillPrice(order)), realizedPnL |-> RZero]
  ELSE
    LET currentQuantity == existingHolding[1].quantity
        currentAveragePrice == existingHolding[1].average_price
        orderQuantity == SignedQuantity(order)
        orderPrice == Rat(FillPrice(order))
    IN  IF (currentQuantity > 0 /\ orderQuantity > 0) \/ (currentQuantity < 0 /\ orderQuantity < 0)
        THEN SameDirection(currentQuantity, currentAveragePrice, orderQuantity, orderPrice)
        ELSE OppositeDirection(currentQuantity, currentAveragePrice, orderQuantity, orderPrice)

\* ------------------------------------------------ createOrder and fillOrder
\* createOrder: validateOrderData, then orderRepository.createOrder inserts the
\* PENDING row, then fillOrder(order.id, quantity, price) runs
CreateOrder(t, instrument, side, quantity, price) ==
  /\ tasks[t].op = "idle"
  /\ IF ~ValidateOrderData(quantity, price)
     THEN /\ Throw(t, "createOrder", "ValidationError")
          /\ UNCHANGED <<orders, holdings, positions, fillSum, deltaSum, runs, candleTable, strategyResults>>
     ELSE /\ Len(orders) < MaxOrders
          /\ orders' = Append(orders, NewOrder(instrument, side, quantity, price))
          /\ Goto(t, [IdleTask EXCEPT !.op = "createOrder", !.pc = "getOrder",
                                      !.orderId = Len(orders) + 1,
                                      !.argQ = Some(quantity), !.argP = Some(price)])
          /\ UNCHANGED <<holdings, positions, fillSum, deltaSum, runs, candleTable, strategyResults>>

\* a fillOrder that does not look at the status of the order it finds
FillOrderBeginAnyStatus(t, op, orderId, filledQuantity, filledPrice) ==
  IF orderId \notin 1 .. Len(orders)
  THEN Throw(t, op, "NotFoundError")
  ELSE Goto(t, [IdleTask EXCEPT !.op = op, !.pc = "updateStatus", !.orderId = orderId,
                   !.argQ = filledQuantity, !.argP = filledPrice,
                   !.finalQ = OrElse(filledQuantity, orders[orderId].quantity),
                   !.finalP = OrElse(filledPrice, orders[orderId].price)])

\* fillOrder(orderId, filledQuantity?, filledPrice?): getOrderById, the two checks,
\* and the || defaults
FillOrderBegin(t, op, orderId, filledQuantity, filledPrice) ==
  IF orderId \notin 1 .. Len(orders)
  THEN Throw(t, op, "NotFoundError")
  ELSE IF orders[orderId].status # "PENDING"
  THEN Throw(t, op, "ValidationError")
  ELSE Goto(t, [IdleTask EXCEPT !.op = op, !.pc = "updateStatus", !.orderId = orderId,
                   !.argQ = filledQuantity, !.argP = filledPrice,
                   !.finalQ = OrElse(filledQuantity, orders[orderId].quantity),
                   !.finalP = OrElse(filledPrice, orders[orderId].price)])

\* createOrder's call of fillOrder(order.id, orderData.quantity, orderData.price)
FillGetOrder(t) ==
  /\ At(t, "getOrder")
  /\ FillOrderBegin(t, tasks[t].op, tasks[t].orderId, tasks[t].argQ, tasks[t].argP)
  /\ UNCHANGED <<orders, holdings, positions, fillSum, deltaSum, calls, runs, candleTable, strategyResults>>

\* fillOrder called on its own
FillOrder(t, orderId, filledQuantity, filledPrice) ==
  /\ tasks[t].op = "idle"
  /\ FillOrderBegin(t, "fillOrder", orderId, filledQuantity, filledPrice)
  /\ UNCHANGED <<orders, holdings, positions, fillSum, deltaSum, runs, candleTable, strategyResults>>

\* OrderRepository.updateOrderStatus(orderId, 'FILLED', quantity, price): UPDATE ... WHERE id
FillUpdateStatus(t) ==
  /\ At(t, "updateStatus")
  /\ LET id == tasks[t].orderId
         row == [orders[id] EXCEPT !.status = "FILLED",
                                   !.filled_quantity = tasks[t].finalQ,
                                   !.filled_price = Some(tasks[t].finalP),
                                   !.filled_time = Some(Now)]
     IN  /\ orders' = [orders EXCEPT ![id] = row]
         /\ Goto(t, [tasks[t] EXCEPT !.pc = "getHolding", !.ord = Some(row),
                                     !.argQ = None, !.argP = None])
  /\ UNCHANGED <<holdings, positions, fillSum, deltaSum, calls, runs, candleTable, strategyResults>>

\* updateHoldingFromOrder: getHolding and the computation on what it returned
FillGetHolding(t) ==
  /\ At(t, "getHolding")
  /\ LET order == tasks[t].ord[1]
         existingHolding == GetHolding(order.instrument)
     IN  Goto(t, [tasks[t] EXCEPT !.pc = "updateHolding", !.hold = existingHolding,
                                  !.calc = Some(HoldingFromOrder(existingHolding, order))])
  /\ UNCHANGED <<orders, holdings, positions, fillSum, deltaSum, calls, runs, candleTable, strategyResults>>

\* updateHoldingFromOrder: holdingRepository.updateHolding with the computed values
FillUpdateHolding(t) ==
  /\ At(t, "updateHolding")
  /\ LET order == tasks[t].ord[1]
         c == tasks[t].calc[1]
     IN  /\ holdings' = UpdateHolding(holdings, order.instrument, c.newQuantity,
                                      c.newAveragePrice, c.realizedPnL)
         /\ deltaSum' = [deltaSum EXCEPT ![order.instrument] = RAdd(@, c.realizedPnL)]
  /\ Goto(t, [tasks[t] EXCEPT !.pc = "createPosition"])
  /\ UNCHANGED <<orders, positions, calls, runs, fillSum, candleTable, strategyResults>>

\* a createPositionFromOrder that merges the fill into an OPEN position of the same
\* instrument and side when there is one, instead of inserting a row
FillCreatePositionMerging(t) ==
  /\ At(t, "createPosition")
  /\ LET order == tasks[t].ord[1]
         same == {k \in 1 .. Len(positions) :
                    /\ positions[k].status = "OPEN"
                    /\ positions[k].instrument = order.instrument
                    /\ positions[k].side = order.side}
     IN  IF same = {}
         THEN positions' = Append(positions,
                NewPosition(order.instrument, order.side, FillPrice(order),
                            order.filled_quantity, OrElse(order.filled_time, order.order_time),
                            None))
         ELSE LET k == CHOOSE x \in same : TRUE
              IN  positions' = [positions EXCEPT ![k].quantity = @ + order.filled_quantity]
  /\ LET row == orders[tasks[t].orderId]
     IN  fillSum' = [fillSum EXCEPT ![row.instrument] =
                       IF row.side = "BUY" THEN @ + row.filled_quantity
                                           ELSE @ - row.filled_quantity]
  /\ Goto(t, [IdleTask EXCEPT !.op = tasks[t].op, !.pc = "done", !.result = "ok",
                              !.orderId = tasks[t].orderId])
  /\ UNCHANGED <<orders, holdings, deltaSum, calls, runs, candleTable, strategyResults>>

\* createPositionFromOrder; the order is then returned (createOrder reads it once more)
FillCreatePosition(t) ==
  /\ At(t, "createPosition")
  /\ LET order == tasks[t].ord[1]
     IN  positions' = Append(positions,
           NewPosition(order.instrument, order.side, FillPrice(order),
                       order.filled_quantity, OrElse(order.filled_time, order.order_time),
                       None))
  /\ LET row == orders[tasks[t].orderId]
     IN  fillSum' = [fillSum EXCEPT ![row.instrument] =
                       IF row.side = "BUY" THEN @ + row.filled_quantity
                                           ELSE @ - row.filled_quantity]
  /\ Goto(t, [IdleTask EXCEPT !.op = tasks[t].op, !.pc = "done", !.result = "ok",
                              !.orderId = tasks[t].orderId])
  /\ UNCHANGED <<orders, holdings, deltaSum, calls, runs, candleTable, strategyResults>>

\* the call returns or its error reaches the caller
Return(t) ==
  /\ tasks[t].pc \in {"done", "failed"}
  /\ Goto(t, IdleTask)
  /\ UNCHANGED <<orders, holdings, positions, fillSum, deltaSum, calls, runs, candleTable, strategyResults>>

\* -------------------------------------------------------------- cancelOrder
\* cancelOrder(orderId): getOrderById and the two checks; the order id asked for is
\* remembered
CancelOrder(t, orderId) ==
  /\ tasks[t].op = "idle"
  /\ IF orderId \notin 1 .. Len(orders)
     THEN Goto(t, [IdleTask EXCEPT !.op = "cancelOrder", !.pc = "failed",
                      !.result = "NotFoundError", !.orderId = orderId])
     ELSE IF orders[orderId].status # "PENDING"
     THEN Goto(t, [IdleTask EXCEPT !.op = "cancelOrder", !.pc = "failed",
                      !.result = "ValidationError", !.orderId = orderId])
     ELSE Goto(t, [IdleTask EXCEPT !.op = "cancelOrder", !.pc = "cancelStatus",
                      !.orderId = orderId])
  /\ UNCHANGED <<orders, holdings, positions, fillSum, deltaSum, runs, candleTable, strategyResults>>

\* OrderRepository.updateOrderStatus(orderId, 'CANCELLED'): UPDATE orders SET status
\* WHERE id, whatever the status of the row is by now; the row is returned
CancelUpdateStatus(t) ==
  /\ At(t, "cancelStatus")
  /\ orders' = [orders EXCEPT ![tasks[t].orderId].status = "CANCELLED"]
  /\ Goto(t, [tasks[t] EXCEPT !.pc = "done", !.result = "ok"])
  /\ UNCHANGED <<holdings, positions, fillSum, deltaSum, calls, runs, candleTable, strategyResults>>

\* ------------------------------------------------------------ closePosition
\* closePosition throws NotFoundError; the position id asked for is remembered
ThrowClose(t, positionId) ==
  tasks' = [tasks EXCEPT ![t] = [IdleTask EXCEPT !.op = "closePosition", !.pc = "failed",
                                                 !.result = "NotFoundError",
                                                 !.posId = positionId]]

\* a closePosition that does not look at the status of the position it finds
ClosePositionAnyStatus(t, positionId, exitPrice) ==
  /\ tasks[t].op = "idle"
  /\ LET position == GetPositionById(positionId)
     IN  IF position = None
         THEN ThrowClose(t, positionId)
         ELSE Goto(t, [IdleTask EXCEPT !.op = "closePosition", !.pc = "closeWrite",
                          !.posId = positionId, !.price = exitPrice, !.pos = position,
                          !.realized0 =
                             IF position[1].instrument \in DOMAIN holdings
                             THEN Some(holdings[position[1].instrument].realized_pnl)
                             ELSE None])
  /\ UNCHANGED <<orders, holdings, positions, fillSum, deltaSum, runs, candleTable, strategyResults>>

\* closePosition(positionId, exitPrice) up to the first query of
\* PositionRepository.closePosition: getPositionById and the null return, on which
\* the service throws NotFoundError.  realized0 remembers the holding's realized_pnl
\* as the call found it.
ClosePosition(t, positionId, exitPrice) ==
  /\ tasks[t].op = "idle"
  /\ LET position == GetPositionById(positionId)
     IN  IF position = None
         THEN ThrowClose(t, positionId)
         ELSE IF position[1].status = "CLOSED"
         THEN ThrowClose(t, positionId)
         ELSE Goto(t, [IdleTask EXCEPT !.op = "closePosition", !.pc = "closeWrite",
                          !.posId = positionId, !.price = exitPrice, !.pos = position,
                          !.realized0 =
                             IF position[1].instrument \in DOMAIN holdings
                             THEN Some(holdings[position[1].instrument].realized_pnl)
                             ELSE None])
  /\ UNCHANGED <<orders, holdings, positions, fillSum, deltaSum, runs, candleTable, strategyResults>>

\* PositionRepository.closePosition: calculatePnl on the row read, then
\* UPDATE positions SET status = 'CLOSED', exit_price, pnl WHERE id RETURNING *
CloseWrite(t) ==
  /\ At(t, "closeWrite")
  /\ LET id == tasks[t].posId
         pnl == CalculatePnl(tasks[t].pos[1], tasks[t].price)
         row == [positions[id] EXCEPT !.status = "CLOSED",
                                      !.exit_price = Some(tasks[t].price),
                                      !.exit_time = Some(Now),
                                      !.pnl = pnl]
     IN  /\ positions' = [positions EXCEPT ![id] = row]
         /\ Goto(t, [tasks[t] EXCEPT !.pc = "closeGetHolding", !.pos = Some(row)])
  /\ UNCHANGED <<orders, holdings, fillSum, deltaSum, calls, runs, candleTable, strategyResults>>

\* updateHoldingFromPositionClosure: getHolding, and the return when there is none
CloseGetHolding(t) ==
  /\ At(t, "closeGetHolding")
  /\ LET holding == GetHolding(tasks[t].pos[1].instrument)
     IN  IF holding = None
         THEN Goto(t, [tasks[t] EXCEPT !.pc = "done", !.result = "ok"])
         ELSE Goto(t, [tasks[t] EXCEPT !.pc = "closeUpdateHolding", !.hold = holding])
  /\ UNCHANGED <<orders, holdings, positions, fillSum, deltaSum, calls, runs, candleTable, strategyResults>>

\* a closure that also takes the position's quantity out of the Holding
CloseUpdateHoldingReducing(t) ==
  /\ At(t, "closeUpdateHolding")
  /\ LET position == tasks[t].pos[1]
         holding == tasks[t].hold[1]
         signed == IF position.side = "BUY" THEN position.quantity ELSE -position.quantity
     IN  /\ holdings' = UpdateHolding(holdings, position.instrument, holding.quantity - signed,
                                      holding.average_price, Rat(position.pnl))
         /\ deltaSum' = [deltaSum EXCEPT ![position.instrument] = RAdd(@, Rat(position.pnl))]
  /\ Goto(t, [tasks[t] EXCEPT !.pc = "done", !.result = "ok", !.hold = None])
  /\ UNCHANGED <<orders, positions, fillSum, calls, runs, candleTable, strategyResults>>

\* updateHoldingFromPositionClosure: updateHolding(instrument, holding.quantity,
\* holding.average_price, position.pnl)
CloseUpdateHolding(t) ==
  /\ At(t, "closeUpdateHolding")
  /\ LET position == tasks[t].pos[1]
         holding == tasks[t].hold[1]
     IN  /\ holdings' = UpdateHolding(holdings, position.instrument, holding.quantity,
                                      holding.average_price, Rat(position.pnl))
         /\ deltaSum' = [deltaSum EXCEPT ![position.instrument] = RAdd(@, Rat(position.pnl))]
  /\ Goto(t, [tasks[t] EXCEPT !.pc = "done", !.result = "ok", !.hold = None])
  /\ UNCHANGED <<orders, positions, fillSum, calls, runs, candleTable, strategyResults>>

\* ------------------------------------------------------- a query that fails
\* the steps of fillOrder and closePosition that await a query
QuerySteps ==
  {"getOrder", "updateStatus", "getHolding", "updateHolding", "createPosition",
   "closeWrite", "closeGetHolding", "closeUpdateHolding"}

\* the query a call is waiting for rejects: fillOrder and closePosition have no
\* try / catch and open no transaction, so the error goes to the caller and what
\* the call has written so far stays written
QueryFails(t) ==
  /\ tasks[t].pc \in QuerySteps
  /\ ~Returning
  /\ Goto(t, [IdleTask EXCEPT !.op = tasks[t].op, !.pc = "failed", !.result = "Error",
                              !.orderId = tasks[t].orderId, !.posId = tasks[t].posId,
                              !.pos = tasks[t].pos, !.realized0 = tasks[t].realized0])
  /\ UNCHANGED <<orders, holdings, positions, fillSum, deltaSum, calls, runs, candleTable, strategyResults>>

\* ----------------------------------------------------- updatePositionPrices
\* the ids of the OPEN positions of an instrument among the first n, latest first
\* a query for the OPEN positions that leaves out the instrument
OpenIdsAnyInstrument(instrument, n) ==
  LET IsOpen(id) == positions[id].status = "OPEN"
  IN  SelectSeq([k \in 1 .. n |-> n + 1 - k], IsOpen)

OpenIds(instrument, n) ==
  LET IsOpen(id) == positions[id].status = "OPEN" /\ positions[id].instrument = instrument
  IN  SelectSeq([k \in 1 .. n |-> n + 1 - k], IsOpen)

\* PositionRepository.getOpenPositions(instrument) = getPositions(instrument, 'OPEN'):
\* ... ORDER BY entry_time DESC LIMIT 100 OFFSET 0 (limit and offset by default).
\* The positions of the ledger's calls have one entry time, so latest first is an
\* order the query may return them in.
GetOpenPositions(instrument) ==
  LET ids == OpenIds(instrument, Len(positions))
  IN  IF Len(ids) <= DefaultLimit THEN ids ELSE SubSeq(ids, 1, DefaultLimit)

\* updatePositionPrices(instrument, currentPrice): getOpenPositions
UpdatePositionPrices(t, instrument, currentPrice) ==
  /\ tasks[t].op = "idle"
  /\ Goto(t, [IdleTask EXCEPT !.op = "updatePositionPrices", !.pc = "pnlRead",
                              !.instrument = instrument, !.price = currentPrice,
                              !.todo = GetOpenPositions(instrument)])
  /\ UNCHANGED <<orders, holdings, positions, fillSum, deltaSum, runs, candleTable, strategyResults>>

\* PositionRepository.updatePositionPnl: getPositionById and the null return
PnlRead(t) ==
  /\ At(t, "pnlRead")
  /\ tasks[t].todo # <<>>
  /\ LET position == GetPositionById(Head(tasks[t].todo))
     IN  IF position = None
         THEN Goto(t, [tasks[t] EXCEPT !.todo = Tail(@)])
         ELSE IF position[1].status = "CLOSED"
         THEN Goto(t, [tasks[t] EXCEPT !.todo = Tail(@)])
         ELSE Goto(t, [tasks[t] EXCEPT !.pc = "pnlWrite", !.pos = position])
  /\ UNCHANGED <<orders, holdings, positions, fillSum, deltaSum, calls, runs, candleTable, strategyResults>>

\* PositionRepository.updatePositionPnl: UPDATE positions SET pnl WHERE id
PnlWrite(t) ==
  /\ At(t, "pnlWrite")
  /\ LET id == Head(tasks[t].todo)
     IN  positions' = [positions EXCEPT ![id].pnl = CalculatePnl(tasks[t].pos[1], tasks[t].price)]
  /\ Goto(t, [tasks[t] EXCEPT !.pc = "pnlRead", !.pos = None, !.todo = Tail(@)])
  /\ UNCHANGED <<orders, holdings, fillSum, deltaSum, calls, runs, candleTable, strategyResults>>

\* HoldingRepository.updateUnrealizedPnl: getHolding and the null return
UnrealizedRead(t) ==
  /\ At(t, "pnlRead")
  /\ tasks[t].todo = <<>>
  /\ LET holding == GetHolding(tasks[t].instrument)
     IN  IF holding = None
         THEN Goto(t, [IdleTask EXCEPT !.op = tasks[t].op, !.pc = "done", !.result = "ok",
                                       !.instrument = tasks[t].instrument,
                                       !.price = tasks[t].price])
         ELSE Goto(t, [tasks[t] EXCEPT !.pc = "unrealizedWrite", !.hold = holding])
  /\ UNCHANGED <<orders, holdings, positions, fillSum, deltaSum, calls, runs, candleTable, strategyResults>>

\* an updateUnrealizedPnl that marks the holding to market by moving its average
\* price to the current price
UnrealizedWriteRebasing(t) ==
  /\ At(t, "unrealizedWrite")
  /\ LET holding == tasks[t].hold[1]
         currentPrice == Rat(tasks[t].price)
     IN  holdings' = [holdings EXCEPT ![tasks[t].instrument] =
                        [@ EXCEPT !.average_price = currentPrice,
                                  !.unrealized_pnl = RZero,
                                  !.total_value = RMul(Rat(holding.quantity), currentPrice)]]
  /\ Goto(t, [IdleTask EXCEPT !.op = tasks[t].op, !.pc = "done", !.result = "ok",
                              !.instrument = tasks[t].instrument, !.price = tasks[t].price])
  /\ UNCHANGED <<orders, positions, fillSum, deltaSum, calls, runs, candleTable, strategyResults>>

\* HoldingRepository.updateUnrealizedPnl: UPDATE holdings SET unrealized_pnl, total_value
UnrealizedWrite(t) ==
  /\ At(t, "unrealizedWrite")
  /\ LET holding == tasks[t].hold[1]
         currentPrice == Rat(tasks[t].price)
         unrealizedPnl == RMul(RSub(currentPrice, holding.average_price), Rat(holding.quantity))
         totalValue == RMul(Rat(holding.quantity), currentPrice)
     IN  holdings' = [holdings EXCEPT ![tasks[t].instrument] =
                        [@ EXCEPT !.unrealized_pnl = unrealizedPnl, !.total_value = totalValue]]
  /\ Goto(t, [IdleTask EXCEPT !.op = tasks[t].op, !.pc = "done", !.result = "ok",
                              !.instrument = tasks[t].instrument, !.price = tasks[t].price])
  /\ UNCHANGED <<orders, positions, fillSum, deltaSum, calls, runs, candleTable, strategyResults>>

\* ---------------------------------------------------------------- backtest
\* the rows of one stored (instrument, timeframe) series with the given closes
StoredCandles(instrument, closes) ==
  [k \in 1 .. Len(closes) |->
     [instrument |-> instrument, epoch_time |-> k, close_price |-> closes[k]]]

\* CandleRepository.getCandles: ... ORDER BY epoch_time DESC
GetCandles(stored) == [k \in 1 .. Len(stored) |-> stored[Len(stored) + 1 - k]]

RECURSIVE SumCloses(_, _, _)
SumCloses(candles, from, to) ==
  IF from > to THEN 0 ELSE candles[to + 1].close_price + SumCloses(candles, from, to - 1)

\* StrategyService.calculateSMA; index counts from 0 as in the code
CalculateSMA(candles, index, period) ==
  LET start == IF index - period + 1 > 0 THEN index - period + 1 ELSE 0
  IN  Norm(SumCloses(candles, start, index), index + 1 - start)

\* a buy signal that asks for prevShort < prevLong
BuySignalStrict(candles, i, shortPeriod, longPeriod) ==
  /\ RLess(CalculateSMA(candles, i - 1, shortPeriod), CalculateSMA(candles, i - 1, longPeriod))
  /\ RLess(CalculateSMA(candles, i, longPeriod), CalculateSMA(candles, i, shortPeriod))

\* the buy signal of simulateStrategy at index i
BuySignal(candles, i, shortPeriod, longPeriod) ==
  /\ RLeq(CalculateSMA(candles, i - 1, shortPeriod), CalculateSMA(candles, i - 1, longPeriod))
  /\ RLess(CalculateSMA(candles, i, longPeriod), CalculateSMA(candles, i, shortPeriod))

\* the sell signal of simulateStrategy at index i, without the test on positions
SellSignal(candles, i, shortPeriod, longPeriod) ==
  /\ RLeq(CalculateSMA(candles, i - 1, longPeriod), CalculateSMA(candles, i - 1, shortPeriod))
  /\ RLess(CalculateSMA(candles, i, shortPeriod), CalculateSMA(candles, i, longPeriod))

ShortPeriod(strategy) == OrElse(strategy.short_period, DefaultShortPeriod)
LongPeriod(strategy) == OrElse(strategy.long_period, DefaultLongPeriod)

\* the strategies a backtest is run with
Strategies ==
  {[id |-> "S1", type |-> "sma_crossover", short_period |-> Some(1), long_period |-> Some(2)],
   [id |-> "S2", type |-> "sma_crossover", short_period |-> None, long_period |-> None],
   [id |-> "S3", type |-> "other", short_period |-> None, long_period |-> None]}

\* backtestStrategy without its check for no candles
BacktestUnchecked(t, strategy, instrument, closes) ==
  /\ tasks[t].op = "idle"
  /\ runs' = runs + 1
  /\ LET candles == GetCandles(StoredCandles(instrument, closes))
     IN  Goto(t, [IdleTask EXCEPT !.op = "backtest", !.pc = "simLoop",
                     !.strategy = Some(strategy), !.candles = candles,
                     !.instrument = instrument,
                     !.idx = IF strategy.type = "sma_crossover"
                             THEN LongPeriod(strategy) ELSE Len(candles)])
  /\ UNCHANGED <<orders, holdings, positions, calls, fillSum, deltaSum, candleTable, strategyResults>>

\* backtestStrategy: getCandlesForBacktest, the check for no candles, and the
\* start of simulateStrategy's loop at i = longPeriod
Backtest(t, strategy, instrument, closes) ==
  /\ tasks[t].op = "idle"
  /\ runs' = runs + 1
  /\ LET candles == GetCandles(StoredCandles(instrument, closes))
     IN  IF Len(candles) = 0
         THEN Throw(t, "backtest", "ValidationError")
         ELSE Goto(t, [IdleTask EXCEPT !.op = "backtest", !.pc = "simLoop",
                          !.strategy = Some(strategy), !.candles = candles,
                          !.instrument = instrument,
                          !.idx = IF strategy.type = "sma_crossover"
                                  THEN LongPeriod(strategy) ELSE Len(candles)])
  /\ UNCHANGED <<orders, holdings, positions, calls, fillSum, deltaSum, candleTable, strategyResults>>

\* simulateStrategy, one turn of the loop up to its first query: on a buy signal
\* positionRepository.createPosition and positions.push; on a sell signal with a
\* last position that is OPEN, on to closePosition; else the next index
SimTurn(t) ==
  /\ At(t, "simLoop")
  /\ tasks[t].idx < Len(tasks[t].candles)
  /\ LET i == tasks[t].idx
         candles == tasks[t].candles
         strategy == tasks[t].strategy[1]
         local == tasks[t].simPositions
     IN  IF BuySignal(candles, i, ShortPeriod(strategy), LongPeriod(strategy))
         THEN LET row == NewPosition(candles[i + 1].instrument, "BUY", candles[i + 1].close_price,
                                     SimulationQuantity, candles[i + 1].epoch_time,
                                     Some(strategy.id))
              IN  /\ positions' = Append(positions, row)
                  /\ Goto(t, [tasks[t] EXCEPT !.idx = i + 1,
                                 !.simPositions = Append(local, [id |-> Len(positions) + 1, row |-> row])])
         ELSE /\ UNCHANGED positions
              /\ IF /\ SellSignal(candles, i, ShortPeriod(strategy), LongPeriod(strategy))
                    /\ Len(local) > 0
                 THEN IF local[Len(local)].row.status = "OPEN"
                      THEN LET position == GetPositionById(local[Len(local)].id)
                           IN  IF position = None
                               THEN Goto(t, [tasks[t] EXCEPT !.idx = i + 1])
                               ELSE IF position[1].status = "CLOSED"
                               THEN Goto(t, [tasks[t] EXCEPT !.idx = i + 1])
                               ELSE Goto(t, [tasks[t] EXCEPT !.pc = "simCloseWrite", !.pos = position])
                      ELSE Goto(t, [tasks[t] EXCEPT !.idx = i + 1])
                 ELSE Goto(t, [tasks[t] EXCEPT !.idx = i + 1])
  /\ UNCHANGED <<orders, holdings, calls, runs, fillSum, deltaSum, candleTable, strategyResults>>

\* simulateStrategy's positionRepository.closePosition(lastPosition.id, close_price):
\* the UPDATE, and positions[positions.length - 1] = closedPosition
SimCloseWrite(t) ==
  /\ At(t, "simCloseWrite")
  /\ LET i == tasks[t].idx
         local == tasks[t].simPositions
         id == local[Len(local)].id
         exitPrice == tasks[t].candles[i + 1].close_price
         row == [positions[id] EXCEPT !.status = "CLOSED",
                                      !.exit_price = Some(exitPrice),
                                      !.exit_time = Some(tasks[t].candles[i + 1].epoch_time),
                                      !.pnl = CalculatePnl(tasks[t].pos[1], exitPrice)]
     IN  /\ positions' = [positions EXCEPT ![id] = row]
         /\ Goto(t, [tasks[t] EXCEPT !.pc = "simLoop", !.idx = i + 1, !.pos = None,
                        !.simPositions = [local EXCEPT ![Len(local)] = [id |-> id, row |-> row]]])
  /\ UNCHANGED <<orders, holdings, calls, runs, fillSum, deltaSum, candleTable, strategyResults>>

RECURSIVE RSum(_)
\* the sum of a sequence of rationals
RSum(values) ==
  IF Len(values) = 0 THEN RZero ELSE RAdd(values[1], RSum(Tail(values)))

RECURSIVE SumPnl(_)
SumPnl(closedPositions) ==
  IF Len(closedPositions) = 0 THEN 0
  ELSE closedPositions[1].pnl + SumPnl(Tail(closedPositions))

\* a Sharpe ratio mean / sqrt(variance), the square root kept symbolic; 0 is 0 / sqrt(1)
ZeroRatio == [mean |-> RZero, variance |-> Rat(1)]

\* avgReturn / Math.sqrt(returnVariance) where the standard deviation is positive,
\* else 0
SharpeRatio(avgReturn, returnVariance) ==
  IF RLess(RZero, returnVariance) /\ avgReturn # RZero
  THEN [mean |-> avgReturn, variance |-> returnVariance]
  ELSE ZeroRatio

RECURSIVE MaxDrawdown(_, _, _, _)
\* the walk over the closed positions: runningPnl, peak, drawdown = (peak -
\* runningPnl) / (peak || 1), maxDrawdown = Math.max(maxDrawdown, drawdown)
MaxDrawdown(pnls, peak, runningPnl, maxDrawdown) ==
  IF Len(pnls) = 0 THEN maxDrawdown
  ELSE LET running == RAdd(runningPnl, pnls[1])
           top == IF RLess(peak, running) THEN running ELSE peak
           drawdown == RDiv(RSub(top, running), IF top = RZero THEN Rat(1) ELSE top)
       IN  MaxDrawdown(Tail(pnls), top, running,
                       IF RLess(maxDrawdown, drawdown) THEN drawdown ELSE maxDrawdown)

\* the pnl column of the closed positions, as numbers
Pnls(closedPositions) == [k \in 1 .. Len(closedPositions) |-> Rat(closedPositions[k].pnl)]

\* the drawdown loop of calculatePerformanceMetrics on its own, over closed positions
\* whose pnl is given
DrawdownWalk(t) ==
  /\ tasks[t].op = "maxDrawdown"
  /\ At(t, "walk")
  /\ Goto(t, [tasks[t] EXCEPT !.pc = "done",
                              !.result = MaxDrawdown(tasks[t].todo, RZero, RZero, RZero)])
  /\ UNCHANGED <<orders, holdings, positions, fillSum, deltaSum, calls, runs, candleTable, strategyResults>>

\* the same metrics, a closed position with pnl 0 counted as a winning trade
CalculatePerformanceMetricsNonNegative(trades) ==
  LET IsClosed(p) == p.status = "CLOSED"
      IsWin(p) == p.pnl >= 0
      closedPositions == SelectSeq(trades, IsClosed)
      totalTrades == Len(closedPositions)
      winningTrades == Len(SelectSeq(closedPositions, IsWin))
      returns == [k \in 1 .. totalTrades |->
                    Norm(closedPositions[k].pnl,
                         closedPositions[k].entry_price * closedPositions[k].quantity)]
      avgReturn == IF totalTrades > 0 THEN RDiv(RSum(returns), Rat(totalTrades)) ELSE RZero
      squares == [k \in 1 .. totalTrades |->
                    RMul(RSub(returns[k], avgReturn), RSub(returns[k], avgReturn))]
      returnVariance == IF totalTrades > 0 THEN RDiv(RSum(squares), Rat(totalTrades)) ELSE RZero
  IN  [totalTrades |-> totalTrades,
       winningTrades |-> winningTrades,
       totalPnl |-> SumPnl(closedPositions),
       maxDrawdown |-> MaxDrawdown(Pnls(closedPositions), RZero, RZero, RZero),
       winRate |-> IF totalTrades > 0 THEN Norm(winningTrades, totalTrades) ELSE RZero,
       sharpeRatio |-> SharpeRatio(avgReturn, returnVariance)]

\* calculatePerformanceMetrics(positions, candles)
CalculatePerformanceMetrics(trades) ==
  LET IsClosed(p) == p.status = "CLOSED"
      IsWin(p) == p.pnl > 0
      closedPositions == SelectSeq(trades, IsClosed)
      totalTrades == Len(closedPositions)
      winningTrades == Len(SelectSeq(closedPositions, IsWin))
      returns == [k \in 1 .. totalTrades |->
                    Norm(closedPositions[k].pnl,
                         closedPositions[k].entry_price * closedPositions[k].quantity)]
      avgReturn == IF totalTrades > 0 THEN RDiv(RSum(returns), Rat(totalTrades)) ELSE RZero
      squares == [k \in 1 .. totalTrades |->
                    RMul(RSub(returns[k], avgReturn), RSub(returns[k], avgReturn))]
      returnVariance == IF totalTrades > 0 THEN RDiv(RSum(squares), Rat(totalTrades)) ELSE RZero
  IN  [totalTrades |-> totalTrades,
       winningTrades |-> winningTrades,
       totalPnl |-> SumPnl(closedPositions),
       maxDrawdown |-> MaxDrawdown(Pnls(closedPositions), RZero, RZero, RZero),
       winRate |-> IF totalTrades > 0 THEN Norm(winningTrades, totalTrades) ELSE RZero,
       sharpeRatio |-> SharpeRatio(avgReturn, returnVariance)]

\* JavaScript's value || null on a Sharpe ratio: 0 is falsy
OrNull(value) == IF value = ZeroRatio THEN None ELSE Some(value)

\* the row StrategyRepository.createStrategyResult inserts and returns; the columns
\* keep the values handed to the INSERT, their DECIMAL scale is not modelled
NewStrategyResult(resultData) ==
  [strategy_id |-> resultData.strategy_id,
   instrument |-> resultData.instrument,
   total_trades |-> resultData.total_trades,
   winning_trades |-> resultData.winning_trades,
   total_pnl |-> resultData.total_pnl,
   max_drawdown |-> resultData.max_drawdown,
   win_rate |-> resultData.win_rate,
   sharpe_ratio |-> OrNull(resultData.sharpe_ratio),
   start_date |-> Some(resultData.start_date),
   end_date |-> Some(resultData.end_date)]

\* every position of the ledger, whichever run or fill created it
TradesOfLedger(t) == positions

\* the positions simulateStrategy returns: its local array
Trades(t) == [k \in 1 .. Len(tasks[t].simPositions) |-> tasks[t].simPositions[k].row]

\* simulateStrategy returns its positions; backtestStrategy computes the metrics,
\* inserts the strategy result and returns it. No start or end date is given, so the
\* dates are those of candles[0] and candles[candles.length - 1]
SimFinish(t) ==
  /\ At(t, "simLoop")
  /\ tasks[t].idx >= Len(tasks[t].candles)
  /\ LET candles == tasks[t].candles
         metrics == CalculatePerformanceMetrics(Trades(t))
         resultData == [strategy_id |-> tasks[t].strategy[1].id,
                        instrument |-> tasks[t].instrument,
                        total_trades |-> metrics.totalTrades,
                        winning_trades |-> metrics.winningTrades,
                        total_pnl |-> metrics.totalPnl,
                        max_drawdown |-> metrics.maxDrawdown,
                        win_rate |-> metrics.winRate,
                        sharpe_ratio |-> metrics.sharpeRatio,
                        start_date |-> candles[1].epoch_time,
                        end_date |-> candles[Len(candles)].epoch_time]
         row == NewStrategyResult(resultData)
     IN  /\ strategyResults' = Append(strategyResults, row)
         /\ Goto(t, [IdleTask EXCEPT !.op = "backtest", !.pc = "done", !.result = row,
                                     !.instrument = tasks[t].instrument,
                                     !.strategy = tasks[t].strategy,
                                     !.candles = candles,
                                     !.simPositions = tasks[t].simPositions])
  /\ UNCHANGED <<orders, holdings, positions, calls, runs, fillSum, deltaSum, candleTable>>

\* ------------------------------------------------- OI interpretation classifier
\* thresholds of calculateOIInterpretation, in percent
PRICE_THRESHOLD == <<1, 10>>
OI_THRESHOLD == Rat(1)

\* the same confidence, a change of exactly the level counted as above it
ConfidenceInclusive(priceChangePercent, oiChangePercent) ==
  IF /\ RLeq(<<1, 2>>, RAbs(priceChangePercent))
     /\ RLeq(Rat(2), RAbs(oiChangePercent))
  THEN "HIGH"
  ELSE IF /\ RLeq(<<1, 5>>, RAbs(priceChangePercent))
          /\ RLeq(Rat(1), RAbs(oiChangePercent))
       THEN "MEDIUM"
       ELSE "LOW"

\* confidence of a definite interpretation. Percentages are exact rationals here; the
\* code computes them in double precision
Confidence(priceChangePercent, oiChangePercent) ==
  IF /\ RLess(<<1, 2>>, RAbs(priceChangePercent))
     /\ RLess(Rat(2), RAbs(oiChangePercent))
  THEN "HIGH"
  ELSE IF /\ RLess(<<1, 5>>, RAbs(priceChangePercent))
          /\ RLess(Rat(1), RAbs(oiChangePercent))
       THEN "MEDIUM"
       ELSE "LOW"

\* the same classifier, a change of exactly the threshold counted as FLAT
CalculateOIInterpretationInclusive(previousCandle, currentCandle) ==
  LET priceChange == currentCandle.close_price - previousCandle.close_price
      oiChange == currentCandle.open_interest - previousCandle.open_interest
      priceChangePercent ==
        RMul(RDiv(Rat(priceChange), Rat(previousCandle.close_price)), Rat(100))
      oiChangePercent ==
        IF previousCandle.open_interest > 0
        THEN RMul(RDiv(Rat(oiChange), Rat(previousCandle.open_interest)), Rat(100))
        ELSE RZero
      priceDirection ==
        IF RLeq(RAbs(priceChangePercent), PRICE_THRESHOLD) THEN "FLAT"
        ELSE IF priceChange > 0 THEN "UP" ELSE "DOWN"
      oiDirection ==
        IF RLeq(RAbs(oiChangePercent), OI_THRESHOLD) THEN "FLAT"
        ELSE IF oiChange > 0 THEN "UP" ELSE "DOWN"
      interpretation ==
        IF priceDirection = "UP" /\ oiDirection = "UP" THEN "LONG_BUILDUP"
        ELSE IF priceDirection = "DOWN" /\ oiDirection = "UP" THEN "SHORT_BUILDUP"
        ELSE IF priceDirection = "DOWN" /\ oiDirection = "DOWN" THEN "LONG_UNWINDING"
        ELSE IF priceDirection = "UP" /\ oiDirection = "DOWN" THEN "SHORT_COVERING"
        ELSE "INCONCLUSIVE"
  IN  [interpretation |-> interpretation,
       priceChange |-> priceChange,
       oiChange |-> oiChange,
       priceDirection |-> priceDirection,
       oiDirection |-> oiDirection,
       confidence |-> IF interpretation = "INCONCLUSIVE" THEN "LOW"
                      ELSE Confidence(priceChangePercent, oiChangePercent)]

\* a classifier that takes a change from a previous open interest of 0 as one of 100%
CalculateOIInterpretationFromZero(previousCandle, currentCandle) ==
  LET priceChange == currentCandle.close_price - previousCandle.close_price
      oiChange == currentCandle.open_interest - previousCandle.open_interest
      priceChangePercent ==
        RMul(RDiv(Rat(priceChange), Rat(previousCandle.close_price)), Rat(100))
      oiChangePercent ==
        IF previousCandle.open_interest > 0
        THEN RMul(RDiv(Rat(oiChange), Rat(previousCandle.open_interest)), Rat(100))
        ELSE IF oiChange = 0 THEN RZero ELSE Rat(100)
      priceDirection ==
        IF RLess(RAbs(priceChangePercent), PRICE_THRESHOLD) THEN "FLAT"
        ELSE IF priceChange > 0 THEN "UP" ELSE "DOWN"
      oiDirection ==
        IF RLess(RAbs(oiChangePercent), OI_THRESHOLD) THEN "FLAT"
        ELSE IF oiChange > 0 THEN "UP" ELSE "DOWN"
      interpretation ==
        IF priceDirection = "UP" /\ oiDirection = "UP" THEN "LONG_BUILDUP"
        ELSE IF priceDirection = "DOWN" /\ oiDirection = "UP" THEN "SHORT_BUILDUP"
        ELSE IF priceDirection = "DOWN" /\ oiDirection = "DOWN" THEN "LONG_UNWINDING"
        ELSE IF priceDirection = "UP" /\ oiDirection = "DOWN" THEN "SHORT_COVERING"
        ELSE "INCONCLUSIVE"
  IN  [interpretation |-> interpretation,
       priceChange |-> priceChange,
       oiChange |-> oiChange,
       priceDirection |-> priceDirection,
       oiDirection |-> oiDirection,
       confidence |-> IF interpretation = "INCONCLUSIVE" THEN "LOW"
                      ELSE Confidence(priceChangePercent, oiChangePercent)]

\* calculateOIInterpretation(previousCandle, currentCandle)
CalculateOIInterpretation(previousCandle, currentCandle) ==
  LET priceChange == currentCandle.close_price - previousCandle.close_price
      oiChange == currentCandle.open_interest - previousCandle.open_interest
      priceChangePercent ==
        RMul(RDiv(Rat(priceChange), Rat(previousCandle.close_price)), Rat(100))
      oiChangePercent ==
        IF previousCandle.open_interest > 0
        THEN RMul(RDiv(Rat(oiChange), Rat(previousCandle.open_interest)), Rat(100))
        ELSE RZero
      priceDirection ==
        IF RLess(RAbs(priceChangePercent), PRICE_THRESHOLD) THEN "FLAT"
        ELSE IF priceChange > 0 THEN "UP" ELSE "DOWN"
      oiDirection ==
        IF RLess(RAbs(oiChangePercent), OI_THRESHOLD) THEN "FLAT"
        ELSE IF oiChange > 0 THEN "UP" ELSE "DOWN"
      interpretation ==
        IF priceDirection = "UP" /\ oiDirection = "UP" THEN "LONG_BUILDUP"
        ELSE IF priceDirection = "DOWN" /\ oiDirection = "UP" THEN "SHORT_BUILDUP"
        ELSE IF priceDirection = "DOWN" /\ oiDirection = "DOWN" THEN "LONG_UNWINDING"
        ELSE IF priceDirection = "UP" /\ oiDirection = "DOWN" THEN "SHORT_COVERING"
        ELSE "INCONCLUSIVE"
  IN  [interpretation |-> interpretation,
       priceChange |-> priceChange,
       oiChange |-> oiChange,
       priceDirection |-> priceDirection,
       oiDirection |-> oiDirection,
       confidence |-> IF interpretation = "INCONCLUSIVE" THEN "LOW"
                      ELSE Confidence(priceChangePercent, oiChangePercent)]

\* a candle row, as far as the classifier reads it
Candle(epochTime, closePrice, openInterest) ==
  [epoch_time |-> epochTime, close_price |-> closePrice, open_interest |-> openInterest]

\* getOIAnalysis has fetched the candle and the candle before it
OIFetched(previousCandle, currentCandle) ==
  [IdleTask EXCEPT !.op = "getOIAnalysis", !.pc = "classify",
                   !.candles = <<previousCandle, currentCandle>>]

\* getOIAnalysis returns calculateOIInterpretation(previousCandle, candle)
GetOIAnalysis(t) ==
  /\ tasks[t].op = "getOIAnalysis"
  /\ At(t, "classify")
  /\ Goto(t, [tasks[t] EXCEPT !.pc = "done",
                              !.result = CalculateOIInterpretation(tasks[t].candles[1],
                                                                   tasks[t].candles[2])])
  /\ UNCHANGED <<orders, holdings, positions, fillSum, deltaSum, calls, runs, candleTable, strategyResults>>

\* ------------------------------------- analyzeAndUpdateOIInterpretations
\* a row of table candles; oi_interpretation is NULL until one is written
CandleRow(id, instrument, epochTime, closePrice, openInterest) ==
  [id |-> id, instrument |-> instrument, timeframe |-> Timeframe, epoch_time |-> epochTime,
   close_price |-> closePrice, open_interest |-> openInterest, oi_interpretation |-> None]

Reverse(rows) == [k \in 1 .. Len(rows) |-> rows[Len(rows) + 1 - k]]

IsAscending(rows) ==
  \A k \in 1 .. Len(rows) - 1 : rows[k].epoch_time < rows[k + 1].epoch_time

RECURSIVE SortAscending(_)
\* the rows in ascending epoch_time, the earliest taken first; Array.prototype.sort is
\* stable, rows of one epoch_time keep their order
SortAscending(rows) ==
  IF Len(rows) = 0 THEN <<>>
  ELSE LET m == CHOOSE k \in 1 .. Len(rows) :
                  /\ \A j \in 1 .. Len(rows) : rows[k].epoch_time <= rows[j].epoch_time
                  /\ \A j \in 1 .. k - 1 : rows[j].epoch_time # rows[k].epoch_time
           rest == [j \in 1 .. Len(rows) - 1 |-> IF j < m THEN rows[j] ELSE rows[j + 1]]
       IN  <<rows[m]>> \o SortAscending(rest)

\* ascending epoch_time: rows that are in that order already, or in the opposite
\* order, need no sorting
ByEpochTime(rows) ==
  IF IsAscending(rows) THEN rows
  ELSE IF IsAscending(Reverse(rows)) THEN Reverse(rows)
  ELSE SortAscending(rows)

\* CandleRepository.getCandles(instrument, {timeframe, limit}):
\* SELECT * FROM candles WHERE instrument AND timeframe ORDER BY epoch_time DESC LIMIT
GetCandlesLimit(instrument, timeframe, limit) ==
  LET Match(row) == row.instrument = instrument /\ row.timeframe = timeframe
      rows == Reverse(ByEpochTime(SelectSeq(candleTable, Match)))
  IN  IF Len(rows) <= limit THEN rows ELSE SubSeq(rows, 1, limit)

\* sortedCandles.findIndex(c => c.id === id), zero-based; ids are unique, and where
\* they are consecutive the index is found without a search
FindIndex(sortedCandles, id) ==
  LET guess == id - sortedCandles[1].id + 1
  IN  IF guess \in 1 .. Len(sortedCandles) /\ sortedCandles[guess].id = id
      THEN guess - 1
      ELSE (CHOOSE k \in 1 .. Len(sortedCandles) : sortedCandles[k].id = id) - 1

\* the ids of a batch, as an interval where they are consecutive
BatchIds(batch) ==
  IF \A k \in 1 .. Len(batch) : batch[k].id = batch[1].id + k - 1
  THEN batch[1].id .. batch[Len(batch)].id
  ELSE {batch[k].id : k \in 1 .. Len(batch)}

\* CandleRepository.updateOIInterpretations:
\* UPDATE candles SET oi_interpretation = CASE id WHEN ... END WHERE id IN (ids)
UpdateOIInterpretations(ids, updates) ==
  candleTable' = [k \in 1 .. Len(candleTable) |->
                    IF k \in ids
                    THEN [candleTable[k] EXCEPT !.oi_interpretation = Some(updates[k])]
                    ELSE candleTable[k]]

\* analyzeAndUpdateOIInterpretations(instrument, timeframe, batchSize): getCandles,
\* the return for fewer than two candles, the sort, and the start of the loop at i = 1
AnalyzeAndUpdateOIInterpretations(t, instrument, batchSize) ==
  /\ tasks[t].op = "idle"
  /\ LET candles == GetCandlesLimit(instrument, Timeframe, AnalysisLimit)
     IN  IF Len(candles) < 2
         THEN Goto(t, [IdleTask EXCEPT !.op = "analyzeOI", !.pc = "done",
                          !.instrument = instrument, !.batchSize = batchSize,
                          !.result = [updated |-> 0, total |-> Len(candles)]])
         ELSE Goto(t, [IdleTask EXCEPT !.op = "analyzeOI", !.pc = "oiBatch",
                          !.instrument = instrument, !.batchSize = batchSize,
                          !.candles = ByEpochTime(candles), !.idx = 1])
  /\ UNCHANGED <<orders, holdings, positions, fillSum, deltaSum, runs, candleTable, strategyResults>>

\* Array.prototype.slice(start, end), zero-based: a negative index counts from the
\* end of the array, an index past either end is clamped, and the slice is empty
\* where start is not before end
Slice(array, start, end) ==
  LET len == Len(array)
      from == IF start < 0 THEN Max(len + start, 0) ELSE Min(start, len)
      to == IF end < 0 THEN Max(len + end, 0) ELSE Min(end, len)
  IN  SubSeq(array, from + 1, to)

\* one turn of the loop over the batches: sortedCandles.slice(i, i + batchSize), an
\* interpretation for each candle of the batch but the first of the series from the
\* candle before it, the one UPDATE of the batch where there is anything to update,
\* and i += batchSize. A slice that starts at i >= 1 does not hold the first candle,
\* and is not searched for it
OIBatch(t) ==
  /\ At(t, "oiBatch")
  /\ tasks[t].idx < Len(tasks[t].candles)
  /\ LET sortedCandles == tasks[t].candles
         i == tasks[t].idx
         batch == Slice(sortedCandles, i, i + tasks[t].batchSize)
         NotFirst(currentCandle) == FindIndex(sortedCandles, currentCandle.id) # 0
         updated == IF i >= 1 THEN batch ELSE SelectSeq(batch, NotFirst)
         ids == IF updated = <<>> THEN {} ELSE BatchIds(updated)
         updates == [id \in ids |->
                       LET currentIndex == FindIndex(sortedCandles, id)
                       IN  CalculateOIInterpretation(sortedCandles[currentIndex],
                                                     sortedCandles[currentIndex + 1]).interpretation]
     IN  /\ IF Len(updated) > 0
            THEN UpdateOIInterpretations(ids, updates)
            ELSE candleTable' = candleTable
         /\ Goto(t, [tasks[t] EXCEPT !.idx = i + tasks[t].batchSize,
                                     !.updatedCount = @ + Len(updated)])
  /\ UNCHANGED <<orders, holdings, positions, fillSum, deltaSum, calls, runs, strategyResults>>

\* the loop is over: return { updated, total }
OIFinish(t) ==
  /\ At(t, "oiBatch")
  /\ tasks[t].idx >= Len(tasks[t].candles)
  /\ Goto(t, [IdleTask EXCEPT !.op = "analyzeOI", !.pc = "done",
                 !.instrument = tasks[t].instrument, !.batchSize = tasks[t].batchSize,
                 !.result = [updated |-> tasks[t].updatedCount, total |-> Len(tasks[t].candles)]])
  /\ UNCHANGED <<orders, holdings, positions, fillSum, deltaSum, calls, runs, candleTable, strategyResults>>

\* ------------------------------------------------------------ storeCandles
\* validateCandles, as far as the modelled columns go: a non-empty array, epoch_time
\* a positive integer, close > 0, open interest >= 0
ValidateCandles(candles) ==
  /\ Len(candles) > 0
  /\ \A k \in 1 .. Len(candles) :
       /\ candles[k].epoch_time > 0
       /\ candles[k].close_price > 0
       /\ candles[k].open_interest >= 0

\* storeCandles' loop over the sorted new candles: the first is paired with the last
\* existing candle if that one is earlier, every other with the new candle before it
CandlesWithOI(sortedExistingCandles, sortedNewCandles) ==
  [i \in 1 .. Len(sortedNewCandles) |->
     LET currentCandleData == sortedNewCandles[i]
         previousCandle ==
           IF i = 1
           THEN IF Len(sortedExistingCandles) > 0
                   /\ sortedExistingCandles[Len(sortedExistingCandles)].epoch_time
                        < currentCandleData.epoch_time
                THEN Some(sortedExistingCandles[Len(sortedExistingCandles)])
                ELSE None
           ELSE Some(sortedNewCandles[i - 1])
     IN  [candleData |-> currentCandleData,
          oiInterpretation |->
            IF previousCandle = None THEN None
            ELSE Some(CalculateOIInterpretation(previousCandle[1],
                                                currentCandleData).interpretation)]]

\* storeCandles(instrument, timeframe, candles) up to its first query: validateCandles,
\* getCandles(instrument, {timeframe, limit: 10}), both sorts and the loop
StoreCandles(t, instrument, candles) ==
  /\ tasks[t].op = "idle"
  /\ IF ~ValidateCandles(candles)
     THEN Throw(t, "storeCandles", "ValidationError")
     ELSE LET existingCandles == GetCandlesLimit(instrument, Timeframe, ContextLimit)
              sortedExistingCandles == ByEpochTime(existingCandles)
              sortedNewCandles == ByEpochTime(candles)
          IN  Goto(t, [IdleTask EXCEPT !.op = "storeCandles", !.pc = "insertCandlesWithOI",
                          !.instrument = instrument, !.todo = candles,
                          !.candles = CandlesWithOI(sortedExistingCandles, sortedNewCandles)])
  /\ UNCHANGED <<orders, holdings, positions, fillSum, deltaSum, runs, candleTable, strategyResults>>

RECURSIVE Upsert(_, _, _)
\* INSERT ... ON CONFLICT (instrument, timeframe, epoch_time) DO UPDATE SET close_price,
\* open_interest, oi_interpretation = EXCLUDED's, one proposed row after the other
Upsert(rows, instrument, candlesWithOI) ==
  IF Len(candlesWithOI) = 0 THEN rows
  ELSE LET candleData == candlesWithOI[1].candleData
           hit == {k \in 1 .. Len(rows) :
                     /\ rows[k].instrument = instrument
                     /\ rows[k].timeframe = Timeframe
                     /\ rows[k].epoch_time = candleData.epoch_time}
           next ==
             IF hit = {}
             THEN Append(rows, [CandleRow(Len(rows) + 1, instrument, candleData.epoch_time,
                                          candleData.close_price, candleData.open_interest)
                                  EXCEPT !.oi_interpretation = candlesWithOI[1].oiInterpretation])
             ELSE [k \in 1 .. Len(rows) |->
                     IF k \in hit
                     THEN [rows[k] EXCEPT !.close_price = candleData.close_price,
                                          !.open_interest = candleData.open_interest,
                                          !.oi_interpretation = candlesWithOI[1].oiInterpretation]
                     ELSE rows[k]]
       IN  Upsert(next, instrument, Tail(candlesWithOI))

\* CandleRepository.insertCandlesWithOI: one INSERT of all rows. PostgreSQL rejects the
\* whole statement when two of its rows have the same (instrument, timeframe,
\* epoch_time) (ON CONFLICT DO UPDATE cannot affect a row a second time); the error
\* is not caught by storeCandles
InsertCandlesWithOI(t) ==
  /\ tasks[t].op = "storeCandles"
  /\ At(t, "insertCandlesWithOI")
  /\ LET candlesWithOI == tasks[t].candles
         twice == \E j, k \in 1 .. Len(candlesWithOI) :
                    /\ j < k
                    /\ candlesWithOI[j].candleData.epoch_time
                         = candlesWithOI[k].candleData.epoch_time
     IN  IF twice
         THEN /\ Goto(t, [tasks[t] EXCEPT !.pc = "failed", !.result = "DatabaseError"])
              /\ UNCHANGED candleTable
         ELSE /\ candleTable' = Upsert(candleTable, tasks[t].instrument, candlesWithOI)
              /\ Goto(t, [tasks[t] EXCEPT !.pc = "done", !.result = "stored"])
  /\ UNCHANGED <<orders, holdings, positions, fillSum, deltaSum, calls, runs, strategyResults>>

\* ------------------------------------------------------------ specification
OptInputs(S) == {None} \cup {Some(x) : x \in S}
PositionIds == 1 .. (Len(positions) + 1)

Step(t) ==
  \/ FillGetOrder(t)
  \/ FillUpdateStatus(t)
  \/ FillGetHolding(t)
  \/ FillUpdateHolding(t)
  \/ FillCreatePosition(t)
  \/ CloseWrite(t)
  \/ CloseGetHolding(t)
  \/ CloseUpdateHolding(t)
  \/ PnlRead(t)
  \/ PnlWrite(t)
  \/ UnrealizedRead(t)
  \/ UnrealizedWrite(t)
  \/ Return(t)

\* a call takes the first free caller slot
FreeTask(t) == tasks[t].op = "idle" /\ ~Returning /\ (t = "t2" => tasks["t1"].op # "idle")

\* one more call, while the specification's budget of calls lasts
Budget == calls < MaxCalls /\ calls' = calls + 1

\* callers run concurrently and interleave at every query
Next ==
  \E t \in Tasks :
    \/ \E i \in Instruments, s \in Sides, q \in QtyInputs, p \in PriceInputs :
         FreeTask(t) /\ Budget /\ CreateOrder(t, i, s, q, p)
    \/ \E id \in PositionIds, p \in ValidPrices :
         FreeTask(t) /\ Budget /\ ClosePosition(t, id, p)
    \/ FillGetOrder(t)
    \/ FillUpdateStatus(t)
    \/ FillGetHolding(t)
    \/ FillUpdateHolding(t)
    \/ FillCreatePosition(t)
    \/ CloseWrite(t)
    \/ CloseGetHolding(t)
    \/ CloseUpdateHolding(t)
    \/ Return(t)

Spec == Init /\ [][Next]_vars

\* the order calls alone, concurrently: createOrder against fillOrder on its own
OrderNext ==
  \E t \in Tasks :
    \/ \E i \in Instruments, s \in Sides, q \in QtyInputs, p \in PriceInputs :
         FreeTask(t) /\ Budget /\ CreateOrder(t, i, s, q, p)
    \/ \E id \in OrderIds, q \in OptInputs(QtyInputs), p \in OptInputs(PriceInputs) :
         FreeTask(t) /\ Budget /\ FillOrder(t, id, q, p)
    \/ FillGetOrder(t)
    \/ FillUpdateStatus(t)
    \/ FillGetHolding(t)
    \/ FillUpdateHolding(t)
    \/ FillCreatePosition(t)
    \/ Return(t)

OrderSpec == Init /\ [][OrderNext]_vars

\* the ledger with no order, or with one order that was inserted and never filled
\* (a createOrder that ended between its INSERT and its fillOrder)
PendingInit ==
  /\ orders \in {<<>>, <<NewOrder("A", "BUY", 1, 1)>>}
  /\ holdings = [i \in {} |-> 0]
  /\ positions = <<>>
  /\ tasks = [t \in Tasks |-> IdleTask]
  /\ calls = 0
  /\ runs = 0
  /\ fillSum = [i \in AllInstruments |-> 0]
  /\ deltaSum = [i \in AllInstruments |-> RZero]
  /\ candleTable = <<>>
  /\ strategyResults = <<>>

\* createOrder, fillOrder and cancelOrder, one call at a time
TerminalNext ==
  \E t \in Tasks :
    \/ \E i \in Instruments, s \in Sides, q \in QtyInputs, p \in PriceInputs :
         AllIdle /\ FreeTask(t) /\ Budget /\ CreateOrder(t, i, s, q, p)
    \/ \E id \in OrderIds, q \in OptInputs(QtyInputs), p \in OptInputs(PriceInputs) :
         AllIdle /\ FreeTask(t) /\ Budget /\ FillOrder(t, id, q, p)
    \/ \E id \in OrderIds :
         AllIdle /\ FreeTask(t) /\ Budget /\ CancelOrder(t, id)
    \/ CancelUpdateStatus(t)
    \/ FillGetOrder(t)
    \/ FillUpdateStatus(t)
    \/ FillGetHolding(t)
    \/ FillUpdateHolding(t)
    \/ FillCreatePosition(t)
    \/ Return(t)

TerminalSpec == PendingInit /\ [][TerminalNext]_vars

\* createOrder, fillOrder(orderId) and cancelOrder, concurrently
CancelNext ==
  \E t \in Tasks :
    \/ \E i \in Instruments, s \in Sides, q \in QtyInputs, p \in PriceInputs :
         FreeTask(t) /\ Budget /\ CreateOrder(t, i, s, q, p)
    \/ \E id \in OrderIds :
         FreeTask(t) /\ Budget /\ FillOrder(t, id, None, None)
    \/ \E id \in OrderIds :
         FreeTask(t) /\ Budget /\ CancelOrder(t, id)
    \/ CancelUpdateStatus(t)
    \/ FillGetOrder(t)
    \/ FillUpdateStatus(t)
    \/ FillGetHolding(t)
    \/ FillUpdateHolding(t)
    \/ FillCreatePosition(t)
    \/ Return(t)

CancelSpec == Init /\ [][CancelNext]_vars

\* the ledger with the backtest simulator beside it, one call at a time
SimNext ==
  \E t \in Tasks :
    \/ \E i \in Instruments, s \in Sides, q \in QtyInputs, p \in PriceInputs :
         AllIdle /\ FreeTask(t) /\ CreateOrder(t, i, s, q, p) /\ UNCHANGED calls
    \/ \E id \in PositionIds, p \in ValidPrices :
         AllIdle /\ FreeTask(t) /\ ClosePosition(t, id, p) /\ UNCHANGED calls
    \/ \E st \in Strategies, i \in Instruments, closes \in BarSeries :
         AllIdle /\ FreeTask(t) /\ runs < MaxBacktests /\ Backtest(t, st, i, closes)
    \/ FillGetOrder(t)
    \/ FillUpdateStatus(t)
    \/ FillGetHolding(t)
    \/ FillUpdateHolding(t)
    \/ FillCreatePosition(t)
    \/ CloseWrite(t)
    \/ CloseGetHolding(t)
    \/ CloseUpdateHolding(t)
    \/ SimTurn(t)
    \/ SimCloseWrite(t)
    \/ SimFinish(t)
    \/ Return(t)

SimSpec == Init /\ [][SimNext]_vars

\* one call at a time: a call starts only when no other is in flight
SeqNext ==
  \E t \in Tasks :
    \/ \E i \in Instruments, s \in Sides, q \in QtyInputs, p \in PriceInputs :
         AllIdle /\ FreeTask(t) /\ CreateOrder(t, i, s, q, p) /\ UNCHANGED calls
    \/ \E id \in PositionIds, p \in ValidPrices :
         AllIdle /\ FreeTask(t) /\ ClosePosition(t, id, p) /\ UNCHANGED calls
    \/ \E i \in Instruments, p \in ValidPrices :
         AllIdle /\ FreeTask(t) /\ UpdatePositionPrices(t, i, p) /\ UNCHANGED calls
    \/ Step(t)

SeqSpec == Init /\ [][SeqNext]_vars

\* one call at a time, and any awaited query may fail
FailNext ==
  \E t \in Tasks :
    \/ \E i \in Instruments, s \in Sides, q \in QtyInputs, p \in PriceInputs :
         AllIdle /\ FreeTask(t) /\ CreateOrder(t, i, s, q, p) /\ UNCHANGED calls
    \/ \E id \in PositionIds, p \in ValidPrices :
         AllIdle /\ FreeTask(t) /\ ClosePosition(t, id, p) /\ UNCHANGED calls
    \/ FillGetOrder(t)
    \/ FillUpdateStatus(t)
    \/ FillGetHolding(t)
    \/ FillUpdateHolding(t)
    \/ FillCreatePosition(t)
    \/ CloseWrite(t)
    \/ CloseGetHolding(t)
    \/ CloseUpdateHolding(t)
    \/ QueryFails(t)
    \/ Return(t)

FailSpec == Init /\ [][FailNext]_vars

\* closePosition and updatePositionPrices concurrently, on positions that fills
\* made one at a time
MarkNext ==
  \E t \in Tasks :
    \/ \E i \in Instruments, s \in Sides, q \in QtyInputs, p \in PriceInputs :
         AllIdle /\ FreeTask(t) /\ Budget /\ CreateOrder(t, i, s, q, p)
    \/ \E id \in PositionIds, p \in ValidPrices :
         FreeTask(t) /\ Budget /\ ClosePosition(t, id, p)
    \/ \E i \in Instruments, p \in ValidPrices :
         FreeTask(t) /\ Budget /\ UpdatePositionPrices(t, i, p)
    \/ FillGetOrder(t)
    \/ FillUpdateStatus(t)
    \/ FillGetHolding(t)
    \/ FillUpdateHolding(t)
    \/ FillCreatePosition(t)
    \/ CloseWrite(t)
    \/ CloseGetHolding(t)
    \/ CloseUpdateHolding(t)
    \/ PnlRead(t)
    \/ PnlWrite(t)
    \/ UnrealizedRead(t)
    \/ UnrealizedWrite(t)
    \/ Return(t)

MarkSpec == Init /\ [][MarkNext]_vars

\* a ledger that DefaultLimit + 1 fills of BUY 1 @ 1 on one instrument have left
\* behind, and updatePositionPrices calls on it, one at a time
ManyFills == DefaultLimit + 1

BulkInit ==
  /\ orders = [k \in 1 .. ManyFills |->
                 [NewOrder("A", "BUY", 1, 1) EXCEPT !.status = "FILLED",
                                                    !.filled_quantity = 1,
                                                    !.filled_price = Some(1),
                                                    !.filled_time = Some(Now)]]
  /\ holdings = UpdateHolding([i \in {} |-> 0], "A", ManyFills, Rat(1), RZero)
  /\ positions = [k \in 1 .. ManyFills |-> NewPosition("A", "BUY", 1, 1, Now, None)]
  /\ tasks = [t \in Tasks |-> IdleTask]
  /\ calls = 0
  /\ runs = 0
  /\ fillSum = [i \in AllInstruments |-> IF i = "A" THEN ManyFills ELSE 0]
  /\ deltaSum = [i \in AllInstruments |-> RZero]
  /\ candleTable = <<>>
  /\ strategyResults = <<>>

BulkNext ==
  \E t \in Tasks :
    \/ \E i \in Instruments, p \in ValidPrices :
         AllIdle /\ FreeTask(t) /\ UpdatePositionPrices(t, i, p) /\ UNCHANGED calls
    \/ PnlRead(t)
    \/ PnlWrite(t)
    \/ UnrealizedRead(t)
    \/ UnrealizedWrite(t)
    \/ Return(t)

BulkSpec == BulkInit /\ [][BulkNext]_vars

\* two callers, one per instrument
Home(t) == IF t = "t1" THEN "A" ELSE "B"

\* a caller with no call in flight and no result waiting
Free(t) == tasks[t].op = "idle" /\ ~Returning

\* fills, closes and price refreshes on two instruments, concurrently: each caller
\* makes its calls on its own instrument while the other makes its calls on the other
IsoNext ==
  \E t \in Tasks :
    \/ \E s \in Sides, q \in QtyInputs, p \in PriceInputs :
         Free(t) /\ Budget /\ CreateOrder(t, Home(t), s, q, p)
    \/ \E id \in PositionIds, p \in ValidPrices :
         /\ Free(t)
         /\ id \in 1 .. Len(positions) => positions[id].instrument = Home(t)
         /\ Budget
         /\ ClosePosition(t, id, p)
    \/ \E p \in ValidPrices :
         Free(t) /\ Budget /\ UpdatePositionPrices(t, Home(t), p)
    \/ FillGetOrder(t)
    \/ FillUpdateStatus(t)
    \/ FillGetHolding(t)
    \/ FillUpdateHolding(t)
    \/ FillCreatePosition(t)
    \/ CloseWrite(t)
    \/ CloseGetHolding(t)
    \/ CloseUpdateHolding(t)
    \/ PnlRead(t)
    \/ PnlWrite(t)
    \/ UnrealizedRead(t)
    \/ UnrealizedWrite(t)
    \/ Return(t)

IsoSpec == Init /\ [][IsoNext]_vars

\* the classifier alone: a call of getOIAnalysis on each pair of candles
OIInit ==
  /\ orders = <<>>
  /\ holdings = [i \in {} |-> 0]
  /\ positions = <<>>
  /\ \E pc, cc \in ClosePrices, po, co \in OpenInterests :
       tasks = [t \in Tasks |->
                  IF t = "t1" THEN OIFetched(Candle(1, pc, po), Candle(2, cc, co))
                  ELSE IdleTask]
  /\ calls = 0
  /\ runs = 0
  /\ fillSum = [i \in AllInstruments |-> 0]
  /\ deltaSum = [i \in AllInstruments |-> RZero]
  /\ candleTable = <<>>
  /\ strategyResults = <<>>

OINext ==
  \E t \in Tasks :
    \/ GetOIAnalysis(t)
    \/ Return(t)

OISpec == OIInit /\ [][OINext]_vars

\* the drawdown loop alone, on every series of pnl values
DrawdownInit ==
  /\ orders = <<>>
  /\ holdings = [i \in {} |-> 0]
  /\ positions = <<>>
  /\ \E pnls \in TradePnlSeries :
       tasks = [t \in Tasks |->
                  IF t = "t1"
                  THEN [IdleTask EXCEPT !.op = "maxDrawdown", !.pc = "walk", !.todo = pnls]
                  ELSE IdleTask]
  /\ calls = 0
  /\ runs = 0
  /\ fillSum = [i \in AllInstruments |-> 0]
  /\ deltaSum = [i \in AllInstruments |-> RZero]
  /\ candleTable = <<>>
  /\ strategyResults = <<>>

DrawdownNext ==
  \E t \in Tasks :
    \/ DrawdownWalk(t)
    \/ Return(t)

DrawdownSpec == DrawdownInit /\ [][DrawdownNext]_vars

\* the stored series the batch analysis is run on: bars at epochs 1 .. n, inserted in
\* any order, with no interpretation yet
AnalysisCloses == {2000, 2020}
AnalysisInterests == {200, 210}
BatchSizes == {1, 2, 3, DefaultBatchSize}

AnalysisInit ==
  /\ orders = <<>>
  /\ holdings = [i \in {} |-> 0]
  /\ positions = <<>>
  /\ tasks = [t \in Tasks |-> IdleTask]
  /\ calls = 0
  /\ runs = 0
  /\ fillSum = [i \in AllInstruments |-> 0]
  /\ deltaSum = [i \in AllInstruments |-> RZero]
  /\ \E n \in 0 .. MaxBars :
       \E closes \in [1 .. n -> AnalysisCloses], interests \in [1 .. n -> AnalysisInterests],
          epochOf \in Permutations(1 .. n) :
         candleTable = [id \in 1 .. n |->
                          CandleRow(id, "A", epochOf[id], closes[epochOf[id]],
                                    interests[epochOf[id]])]
  /\ strategyResults = <<>>

\* the batch analysis, one call at a time
AnalysisNext ==
  \E t \in Tasks :
    \/ \E i \in Instruments, b \in BatchSizes :
         AllIdle /\ FreeTask(t) /\ Budget /\ AnalyzeAndUpdateOIInterpretations(t, i, b)
    \/ OIBatch(t)
    \/ OIFinish(t)
    \/ Return(t)

AnalysisSpec == AnalysisInit /\ [][AnalysisNext]_vars

\* storeCandles and the batch analysis on one series, one call at a time
StoreNext ==
  \E t \in Tasks :
    \/ \E i \in Instruments, candles \in StoreBatches :
         /\ AllIdle /\ FreeTask(t)
         /\ calls < MaxStores /\ calls' = calls + 1
         /\ StoreCandles(t, i, candles)
    \/ InsertCandlesWithOI(t)
    \/ \E i \in Instruments, b \in BatchSizes :
         /\ AllIdle /\ FreeTask(t)
         /\ calls < MaxStores + 2 /\ calls' = calls + 1
         /\ AnalyzeAndUpdateOIInterpretations(t, i, b)
    \/ OIBatch(t)
    \/ OIFinish(t)
    \/ Return(t)

StoreSpec == Init /\ [][StoreNext]_vars

\* the batch sizes a caller may send: any integer
AnyBatchSizes == {-2, -1, 0, 1, 2}

\* a turn of the loop, as long as i has not fallen below -MaxDescent
OIBatchAbove(t) ==
  /\ OIBatch(t)
  /\ tasks'[t].idx >= -MaxDescent

\* the batch analysis with any batch size, one call at a time
LoopNext ==
  \E t \in Tasks :
    \/ \E i \in Instruments, b \in AnyBatchSizes :
         AllIdle /\ FreeTask(t) /\ Budget /\ AnalyzeAndUpdateOIInterpretations(t, i, b)
    \/ OIBatchAbove(t)
    \/ OIFinish(t)
    \/ Return(t)

\* the event loop runs every continuation that is ready: a call that has started
\* takes its next turn of the loop, or leaves the loop, as long as it can
LoopSpec ==
  /\ AnalysisInit
  /\ [][LoopNext]_vars
  /\ \A t \in Tasks : WF_vars(OIBatchAbove(t) \/ OIFinish(t))

\* a stored series of one bar more than the analysis fetches
LongSeries == AnalysisLimit + 1

\* series inserted in time order: the short ones, and the one of LongSeries bars
LongInit ==
  /\ orders = <<>>
  /\ holdings = [i \in {} |-> 0]
  /\ positions = <<>>
  /\ tasks = [t \in Tasks |-> IdleTask]
  /\ calls = 0
  /\ runs = 0
  /\ fillSum = [i \in AllInstruments |-> 0]
  /\ deltaSum = [i \in AllInstruments |-> RZero]
  /\ \/ \E n \in 0 .. MaxBars :
          \E closes \in [1 .. n -> AnalysisCloses], interests \in [1 .. n -> AnalysisInterests] :
            candleTable = [id \in 1 .. n |-> CandleRow(id, "A", id, closes[id], interests[id])]
     \/ candleTable = [id \in 1 .. LongSeries |->
                         CandleRow(id, "A", id, 2000 + 20 * (id % 2), 200 + 10 * ((id \div 2) % 2))]
  /\ strategyResults = <<>>

\* one run of the batch analysis, all of the fetched candles in one batch
LongNext ==
  \E t \in Tasks :
    \/ \E i \in Instruments :
         /\ AllIdle /\ FreeTask(t)
         /\ calls = 0 /\ calls' = 1
         /\ AnalyzeAndUpdateOIInterpretations(t, i, AnalysisLimit)
    \/ OIBatch(t)
    \/ OIFinish(t)
    \/ Return(t)

LongSpec == LongInit /\ [][LongNext]_vars

\* the stored series of an instrument, in time order
Series(instrument) ==
  LET Match(row) == row.instrument = instrument /\ row.timeframe = Timeframe
  IN  ByEpochTime(SelectSeq(candleTable, Match))

\* the closes of the stored series of an instrument, oldest first
StoredCloses(instrument) ==
  [k \in 1 .. Len(Series(instrument)) |-> Series(instrument)[k].close_price]

\* the candles of instrument A are stored, at epochs 1 .. n with the given closes
StoredInit(closes) ==
  /\ orders = <<>>
  /\ holdings = [i \in {} |-> 0]
  /\ positions = <<>>
  /\ tasks = [t \in Tasks |-> IdleTask]
  /\ calls = 0
  /\ runs = 0
  /\ fillSum = [i \in AllInstruments |-> 0]
  /\ deltaSum = [i \in AllInstruments |-> RZero]
  /\ candleTable = [id \in 1 .. Len(closes) |-> CandleRow(id, "A", id, closes[id], 0)]
  /\ strategyResults = <<>>

RunInit == \E closes \in RunBarSeries : StoredInit(closes)

\* one backtest over the stored series
RunNext ==
  \E t \in Tasks :
    \/ \E st \in Strategies, i \in Instruments :
         AllIdle /\ FreeTask(t) /\ runs = 0 /\ Backtest(t, st, i, StoredCloses(i))
    \/ SimTurn(t)
    \/ SimCloseWrite(t)
    \/ SimFinish(t)
    \/ Return(t)

RunSpec == RunInit /\ [][RunNext]_vars

\* one backtest over a longer stored series
CrossInit == \E closes \in CrossBarSeries : StoredInit(closes)

CrossSpec == CrossInit /\ [][RunNext]_vars

TwinInit == \E closes \in TwinBarSeries : StoredInit(closes)

\* backtests over one stored series, one after the other
TwinNext ==
  \E t \in Tasks :
    \/ \E st \in Strategies, i \in Instruments :
         AllIdle /\ FreeTask(t) /\ runs < MaxRuns /\ Backtest(t, st, i, StoredCloses(i))
    \/ SimTurn(t)
    \/ SimCloseWrite(t)
    \/ SimFinish(t)
    \/ Return(t)

TwinSpec == TwinInit /\ [][TwinNext]_vars

\* ------------------------------------------------------------------ claims
\* a fill whose holding update has just been written: the task still holds the
\* holding it had read (hold) next to the stored one
JustFilled(t) == tasks[t].pc = "createPosition"

\* the fill as createOrder was given it: signed quantity and price
ReqQty(t) ==
  LET row == orders[tasks[t].orderId]
  IN  IF row.side = "BUY" THEN row.quantity ELSE -row.quantity

ReqPrice(t) == Rat(orders[tasks[t].orderId].price)

Before(t) == tasks[t].hold[1]
After(t) == holdings[orders[tasks[t].orderId].instrument]

NonFlatBefore(t) == tasks[t].hold # None /\ tasks[t].hold[1].quantity # 0

OppositeFill(t) ==
  /\ JustFilled(t)
  /\ NonFlatBefore(t)
  /\ (Before(t).quantity > 0) # (ReqQty(t) > 0)

SameSignFill(t) ==
  /\ JustFilled(t)
  /\ NonFlatBefore(t)
  /\ (Before(t).quantity > 0) = (ReqQty(t) > 0)

HasClosedPosition == \E k \in 1 .. Len(positions) : positions[k].status = "CLOSED"

\* C1: after any sequence of createOrder fills on an instrument, made one at a time
\* and mixed with closePosition and updatePositionPrices calls, the holding's
\* quantity is the sum of the BUY quantities minus the sum of the SELL quantities
\* (and there is no holding only if nothing was filled).
C1_QuantityIsSignedSumOfFills ==
  AllIdle =>
    \A i \in Instruments :
      IF i \in DOMAIN holdings THEN holdings[i].quantity = fillSum[i] ELSE fillSum[i] = 0

C1_Witness ==
  /\ AllIdle
  /\ "A" \in DOMAIN holdings
  /\ Len(orders) >= 2
  /\ holdings["A"].quantity # 0
  /\ HasClosedPosition
  /\ holdings["A"].unrealized_pnl # RZero

\* C2: a fill of opposite sign and strictly larger size than a non-flat holding (a
\* full reversal) leaves the holding's average price equal to the fill price.
C2_ReversalTakesFillPrice ==
  \A t \in Tasks :
    (OppositeFill(t) /\ Abs(ReqQty(t)) > Abs(Before(t).quantity))
      => After(t).average_price = ReqPrice(t)

\* C3: a fill of opposite sign and strictly smaller size than a non-flat holding (a
\* partial close) leaves the holding's average price as it was.
C3_PartialCloseKeepsAverage ==
  \A t \in Tasks :
    (OppositeFill(t) /\ Abs(ReqQty(t)) < Abs(Before(t).quantity))
      => After(t).average_price = Before(t).average_price

\* C4: a fill of signed quantity q at price p against a non-flat holding of opposite
\* sign realizes closing_qty * (p - avg) if the holding was long and
\* closing_qty * (avg - p) if it was short, closing_qty = min(|existing|, |q|), and
\* nothing for the rest of q; that delta is what the holding's realized_pnl grows by.
C4_RealizedDeltaOfClosingPortion ==
  \A t \in Tasks :
    OppositeFill(t) =>
      LET closingQty == Min(Abs(Before(t).quantity), Abs(ReqQty(t)))
          expected == IF Before(t).quantity > 0
                      THEN RMul(Rat(closingQty), RSub(ReqPrice(t), Before(t).average_price))
                      ELSE RMul(Rat(closingQty), RSub(Before(t).average_price, ReqPrice(t)))
      IN  /\ tasks[t].calc[1].realizedPnL = expected
          /\ After(t).realized_pnl = RAdd(Before(t).realized_pnl, expected)

C4_Witness ==
  \E t \in Tasks :
    /\ OppositeFill(t)
    /\ Abs(ReqQty(t)) > Abs(Before(t).quantity)
    /\ tasks[t].calc[1].realizedPnL # RZero

CloseReturned(t) ==
  /\ tasks[t].op = "closePosition"
  /\ tasks[t].pc \in {"closeGetHolding", "closeUpdateHolding", "done"}

\* C6: after any fills and position closes, concurrent ones included, a holding's
\* realized_pnl is the sum of every realized delta that was applied to it: no delta
\* is overwritten or lost.
C6_RealizedIsSumOfDeltas ==
  \A i \in Instruments :
    IF i \in DOMAIN holdings
    THEN holdings[i].realized_pnl = deltaSum[i]
    ELSE deltaSum[i] = RZero

C6_Witness ==
  \E t \in Tasks :
    /\ tasks[t].op = "closePosition"
    /\ tasks[t].pc = "done"
    /\ tasks[t].pos[1].pnl # 0
    /\ tasks[t].realized0 # None
    /\ holdings[tasks[t].pos[1].instrument].realized_pnl
         # RAdd(tasks[t].realized0[1], Rat(tasks[t].pos[1].pnl))

\* C7: for every OPEN position, whichever path created it (a live fill or the
\* backtest simulator), a successful closePosition increases the realized_pnl of
\* the instrument's holding by exactly the position's pnl.
C7_CloseAddsPnlToHolding ==
  \A t \in Tasks :
    (tasks[t].op = "closePosition" /\ tasks[t].pc = "done") =>
      LET position == tasks[t].pos[1]
          before == IF tasks[t].realized0 = None THEN RZero ELSE tasks[t].realized0[1]
      IN  /\ position.instrument \in DOMAIN holdings
          /\ holdings[position.instrument].realized_pnl = RAdd(before, Rat(position.pnl))

\* C8: every position closePosition returns is CLOSED, carries the exit price of
\* the call, and has pnl = (exit_price - entry_price) * quantity if its side is BUY
\* and (entry_price - exit_price) * quantity if its side is SELL.
C8_ClosedPnlBySide ==
  \A t \in Tasks :
    CloseReturned(t) =>
      LET position == tasks[t].pos[1]
      IN  /\ position.status = "CLOSED"
          /\ position.exit_price = Some(tasks[t].price)
          /\ position.side = "BUY"
               => position.pnl = (tasks[t].price - position.entry_price) * position.quantity
          /\ position.side = "SELL"
               => position.pnl = (position.entry_price - tasks[t].price) * position.quantity

C8_Witness ==
  \E t \in Tasks :
    /\ CloseReturned(t)
    /\ tasks[t].pc = "done"
    /\ tasks[t].pos[1].side = "SELL"
    /\ tasks[t].pos[1].pnl # 0

\* C9: closePosition on an id that names no position, or a position already
\* CLOSED, fails with NotFoundError and leaves every position and every holding as
\* it was (and a call on an OPEN position does not fail that way).
C9_FailedCloseChangesNothing ==
  [][\A t \in Tasks :
       /\ (tasks[t].op = "idle" /\ tasks'[t].op = "closePosition") =>
            LET id == tasks'[t].posId
                closeable == id \in 1 .. Len(positions) /\ positions[id].status = "OPEN"
            IN  IF closeable
                THEN tasks'[t].pc = "closeWrite"
                ELSE /\ tasks'[t].pc = "failed"
                     /\ tasks'[t].result = "NotFoundError"
                     /\ positions' = positions
                     /\ holdings' = holdings
       /\ (tasks[t].op = "closePosition" /\ tasks[t].pc = "failed") =>
            /\ tasks'[t].op = "idle"
            /\ positions' = positions
            /\ holdings' = holdings]_vars

C9_Witness ==
  \E t \in Tasks :
    /\ tasks[t].op = "closePosition"
    /\ tasks[t].pc = "failed"
    /\ tasks[t].result = "NotFoundError"
    /\ tasks[t].posId \in 1 .. Len(positions)
    /\ positions[tasks[t].posId].status = "CLOSED"
    /\ positions[tasks[t].posId].pnl # 0
    /\ \E i \in DOMAIN holdings : holdings[i].realized_pnl # RZero

\* C10: a fill whose price or quantity is not positive, given to createOrder or as
\* fillOrder's filledQuantity / filledPrice, is rejected before anything is
\* written: no fill goes ahead with, and no order is FILLED with, a quantity or
\* price <= 0.
C10_NonPositiveFillRejected ==
  /\ \A t \in Tasks :
       tasks[t].pc = "updateStatus" => (tasks[t].finalQ > 0 /\ tasks[t].finalP > 0)
  /\ \A k \in 1 .. Len(orders) :
       orders[k].status = "FILLED"
         => (orders[k].filled_quantity > 0 /\ orders[k].filled_price[1] > 0)

\* the positions and FILLED orders of the store
FillPositions == {k \in 1 .. Len(positions) : positions[k].strategy_id = None}
FilledOrders == {k \in 1 .. Len(orders) : orders[k].status = "FILLED"}

\* C11: a fillOrder or closePosition that fails at one of its storage steps leaves
\* nothing half done: after a failed fill its order is not FILLED unless the holding
\* update and the position are there too, and after a failed close its position is
\* not CLOSED unless its pnl is in the holding's realized_pnl.
C11_FailedOperationIsAllOrNothing ==
  \A t \in Tasks :
    (tasks[t].pc = "failed" /\ tasks[t].result = "Error") =>
      /\ tasks[t].op = "createOrder" =>
           (orders[tasks[t].orderId].status = "FILLED"
              => Cardinality(FillPositions) = Cardinality(FilledOrders))
      /\ tasks[t].op = "closePosition" =>
           (positions[tasks[t].posId].status = "CLOSED"
              => /\ tasks[t].realized0 # None
                 /\ holdings[positions[tasks[t].posId].instrument].realized_pnl
                      = RAdd(tasks[t].realized0[1], Rat(positions[tasks[t].posId].pnl)))

\* the signed sum of the filled quantities of the first n orders on an instrument
RECURSIVE SumFilled(_, _)
SumFilled(instrument, n) ==
  IF n = 0 THEN 0
  ELSE SumFilled(instrument, n - 1)
       + (IF orders[n].instrument = instrument /\ orders[n].status = "FILLED"
          THEN (IF orders[n].side = "BUY" THEN orders[n].filled_quantity
                                        ELSE -orders[n].filled_quantity)
          ELSE 0)

\* C12: concurrent fills (or a fill and a closePosition) on one instrument act on the
\* holding as if run one after the other: once they are all done no update is lost,
\* so the holding's quantity is what the fills give in either order, the signed sum
\* of the filled quantities.
C12_ConcurrentFillsSerialized ==
  AllIdle =>
    \A i \in Instruments :
      i \in DOMAIN holdings => holdings[i].quantity = SumFilled(i, Len(orders))

\* a closePosition call that has found its position OPEN: it will close it and succeed
ClosingOpen(t) ==
  /\ tasks[t].op = "closePosition"
  /\ tasks[t].pc \in {"closeWrite", "closeGetHolding", "closeUpdateHolding", "done"}

\* C13: of the concurrent closePosition calls on one OPEN position exactly one
\* succeeds and the others fail with NotFoundError: no two calls are both past the
\* check on the same position, so its pnl reaches the holding once.
C13_PositionClosedAtMostOnce ==
  \A t, u \in Tasks :
    (t # u /\ ClosingOpen(t) /\ ClosingOpen(u)) => tasks[t].posId # tasks[u].posId

\* C14: once a position is CLOSED, its status, exit_price, exit_time and pnl never
\* change again, whatever closePosition or updatePositionPrices call comes later or
\* runs beside the close, an updatePositionPrices that read the position while it
\* was OPEN included.
C14_ClosedPositionImmutable ==
  [][\A k \in 1 .. Len(positions) :
       positions[k].status = "CLOSED" =>
         /\ positions'[k].status = "CLOSED"
         /\ positions'[k].exit_price = positions[k].exit_price
         /\ positions'[k].exit_time = positions[k].exit_time
         /\ positions'[k].pnl = positions[k].pnl]_vars

\* C15: every CLOSED position has exit_time >= entry_time, closed by closePosition
\* (exit at the time of the call, entry at the order's fill) or by the backtest
\* simulator (entry and exit times those of the bars at the opening and closing index).
C15_ExitNotBeforeEntry ==
  \A k \in 1 .. Len(positions) :
    positions[k].status = "CLOSED" => positions[k].exit_time[1] >= positions[k].entry_time

\* the step of a fill that returns: its holding is written and its position inserted
FillDone(t) == tasks[t].pc = "createPosition" /\ tasks'[t].pc = "done"

\* C16: every fill creates exactly one new OPEN position with the fill's instrument,
\* side, price and quantity, leaving the positions there were as they are (no merge,
\* also when the fill adds to or reduces the exposure), and has updated the
\* instrument's holding; after n fills there are n positions made by fills.
C16_OnePositionPerFill ==
  /\ [][\A t \in Tasks :
          FillDone(t) =>
            LET row == orders[tasks[t].orderId]
                made == positions'[Len(positions) + 1]
            IN  /\ Len(positions') = Len(positions) + 1
                /\ SubSeq(positions', 1, Len(positions)) = positions
                /\ made.status = "OPEN"
                /\ made.instrument = row.instrument
                /\ made.side = row.side
                /\ made.entry_price = row.price
                /\ made.quantity = row.quantity
                /\ row.instrument \in DOMAIN holdings
                /\ holdings[row.instrument].quantity = fillSum'[row.instrument]]_vars
  /\ [](AllIdle => Cardinality(FillPositions) = Cardinality(FilledOrders))

C16_Witness ==
  /\ AllIdle
  /\ Len(positions) = 2
  /\ positions[1].side = "BUY" /\ positions[1].status = "OPEN"
  /\ positions[2].side = "BUY" /\ positions[2].status = "OPEN"
  /\ positions[1].instrument = positions[2].instrument
  /\ Cardinality(FilledOrders) = 2

\* a step of an updatePositionPrices call, its start included
RefreshStep(t) ==
  /\ tasks'[t] # tasks[t]
  /\ tasks[t].op = "updatePositionPrices" \/ tasks'[t].op = "updatePositionPrices"

\* C17: updatePositionPrices leaves every holding's quantity, average price and
\* realized_pnl as they are, leaves every CLOSED position as it is, and changes no
\* position's status, entry or exit fields (nor adds or removes a position).
C17_RefreshFrame ==
  [][\A t \in Tasks :
       RefreshStep(t) =>
         /\ DOMAIN holdings' = DOMAIN holdings
         /\ \A i \in DOMAIN holdings :
              /\ holdings'[i].quantity = holdings[i].quantity
              /\ holdings'[i].average_price = holdings[i].average_price
              /\ holdings'[i].realized_pnl = holdings[i].realized_pnl
         /\ Len(positions') = Len(positions)
         /\ \A k \in 1 .. Len(positions) :
              /\ positions[k].status = "CLOSED" => positions'[k] = positions[k]
              /\ [positions'[k] EXCEPT !.pnl = 0] = [positions[k] EXCEPT !.pnl = 0]]_vars

C17_Witness ==
  \E t \in Tasks :
    /\ tasks[t].op = "updatePositionPrices"
    /\ tasks[t].pc = "done"
    /\ HasClosedPosition
    /\ \E k \in 1 .. Len(positions) : positions[k].status = "OPEN" /\ positions[k].pnl # 0
    /\ tasks[t].instrument \in DOMAIN holdings
    /\ holdings[tasks[t].instrument].unrealized_pnl # RZero
    /\ holdings[tasks[t].instrument].realized_pnl # RZero

\* an updatePositionPrices call that has completed
RefreshDone(t) == tasks[t].op = "updatePositionPrices" /\ tasks[t].pc = "done"

\* C18: when updatePositionPrices(instrument, p) has completed, every OPEN position
\* of the instrument, however many there are, has pnl (p - entry) * quantity if BUY
\* and (entry - p) * quantity if SELL, and the holding has unrealized_pnl =
\* (p - average_price) * quantity and total_value = quantity * p.
C18_RefreshMarksEveryOpenPosition ==
  \A t \in Tasks :
    RefreshDone(t) =>
      LET i == tasks[t].instrument
          p == tasks[t].price
      IN  /\ \A k \in 1 .. Len(positions) :
               (positions[k].status = "OPEN" /\ positions[k].instrument = i) =>
                 positions[k].pnl =
                   IF positions[k].side = "BUY"
                   THEN (p - positions[k].entry_price) * positions[k].quantity
                   ELSE (positions[k].entry_price - p) * positions[k].quantity
          /\ i \in DOMAIN holdings =>
               /\ holdings[i].unrealized_pnl =
                    RMul(RSub(Rat(p), holdings[i].average_price), Rat(holdings[i].quantity))
               /\ holdings[i].total_value = RMul(Rat(holdings[i].quantity), Rat(p))

\* the positions of an instrument, in the order they were made
PositionsOf(instrument) ==
  LET OnIt(row) == row.instrument = instrument
  IN  SelectSeq(positions, OnIt)

\* the instrument the call of task t works on, "" if it works on none: that of its
\* order, of its position, or the one it was given
Target(t) ==
  LET call == IF tasks[t].op = "idle" THEN tasks'[t] ELSE tasks[t]
  IN  IF call.op \in {"createOrder", "fillOrder"}
      THEN IF call.orderId \in 1 .. Len(orders') THEN orders'[call.orderId].instrument ELSE ""
      ELSE IF call.op = "closePosition"
      THEN IF call.posId \in 1 .. Len(positions)
           THEN positions[call.posId].instrument ELSE ""
      ELSE IF call.op = "updatePositionPrices" THEN call.instrument
      ELSE ""

\* C19: a fill, a closePosition or an updatePositionPrices on one instrument leaves
\* the holding and every position of any other instrument as they are, in every
\* interleaving with the operations on the other instrument.
C19_OtherInstrumentUntouched ==
  [][\A t \in Tasks :
       tasks'[t] # tasks[t] =>
         \A j \in AllInstruments \ {Target(t)} :
           /\ GetHolding(j)' = GetHolding(j)
           /\ PositionsOf(j)' = PositionsOf(j)]_vars

C19_Witness ==
  \E t, u \in Tasks :
    /\ tasks[t].op = "createOrder" /\ tasks[t].pc = "createPosition"
    /\ orders[tasks[t].orderId].instrument = "A"
    /\ "A" \in DOMAIN holdings
    /\ tasks[u].op = "updatePositionPrices" /\ tasks[u].pc = "unrealizedWrite"
    /\ tasks[u].instrument = "B"
    /\ holdings["B"].quantity # 0
    /\ \E k \in 1 .. Len(positions) :
         positions[k].instrument = "B" /\ positions[k].pnl # 0

\* percentage changes of a bar pair
PriceChangePct(previous, current) ==
  RMul(RDiv(Rat(current.close_price - previous.close_price), Rat(previous.close_price)),
       Rat(100))

OiChangePct(previous, current) ==
  IF previous.open_interest > 0
  THEN RMul(RDiv(Rat(current.open_interest - previous.open_interest),
                 Rat(previous.open_interest)), Rat(100))
  ELSE RZero

\* FLAT below the threshold, else UP or DOWN by sign
Direction(pct, threshold) ==
  IF RLess(RAbs(pct), threshold) THEN "FLAT"
  ELSE IF RLess(RZero, pct) THEN "UP" ELSE "DOWN"

\* a call of getOIAnalysis that has its analysis
Classified(t) == tasks[t].op = "getOIAnalysis" /\ tasks[t].pc = "done"

\* C20: for every bar pair the interpretation is LONG_BUILDUP iff price is UP and OI is
\* UP, SHORT_BUILDUP iff price DOWN and OI UP, LONG_UNWINDING iff price DOWN and OI
\* DOWN, SHORT_COVERING iff price UP and OI DOWN, and INCONCLUSIVE otherwise, where
\* price is FLAT iff |price_change_pct| < 0.1 and OI is FLAT iff |oi_change_pct| < 1.0;
\* a price change below 0.1% is INCONCLUSIVE whatever the OI does
C20_InterpretationIsQuadrant ==
  \A t \in Tasks :
    Classified(t) =>
      LET previous == tasks[t].candles[1]
          current == tasks[t].candles[2]
          price == Direction(PriceChangePct(previous, current), <<1, 10>>)
          oi == Direction(OiChangePct(previous, current), Rat(1))
          label == tasks[t].result.interpretation
      IN  /\ label = "LONG_BUILDUP" <=> (price = "UP" /\ oi = "UP")
          /\ label = "SHORT_BUILDUP" <=> (price = "DOWN" /\ oi = "UP")
          /\ label = "LONG_UNWINDING" <=> (price = "DOWN" /\ oi = "DOWN")
          /\ label = "SHORT_COVERING" <=> (price = "UP" /\ oi = "DOWN")
          /\ label = "INCONCLUSIVE" <=> (price = "FLAT" \/ oi = "FLAT")
          /\ tasks[t].result.priceDirection = price
          /\ tasks[t].result.oiDirection = oi
          /\ RLess(RAbs(PriceChangePct(previous, current)), <<1, 10>>)
               => label = "INCONCLUSIVE"

\* a pair whose price change is exactly 0.1% and whose OI change is exactly -1% has been
\* classified, and is not INCONCLUSIVE
C20_Witness ==
  \E t \in Tasks :
    /\ Classified(t)
    /\ RAbs(PriceChangePct(tasks[t].candles[1], tasks[t].candles[2])) = <<1, 10>>
    /\ OiChangePct(tasks[t].candles[1], tasks[t].candles[2]) = Rat(-1)
    /\ tasks[t].result.interpretation \in {"SHORT_COVERING", "LONG_UNWINDING"}

\* C21: the confidence is LOW whenever the interpretation is INCONCLUSIVE; for a
\* definite interpretation it is HIGH iff |price_change_pct| > 0.5 and
\* |oi_change_pct| > 2, otherwise MEDIUM iff |price_change_pct| > 0.2 and
\* |oi_change_pct| > 1, otherwise LOW
C21_ConfidenceLevels ==
  \A t \in Tasks :
    Classified(t) =>
      LET p == RAbs(PriceChangePct(tasks[t].candles[1], tasks[t].candles[2]))
          oi == RAbs(OiChangePct(tasks[t].candles[1], tasks[t].candles[2]))
          high == RLess(<<1, 2>>, p) /\ RLess(Rat(2), oi)
          medium == ~high /\ RLess(<<1, 5>>, p) /\ RLess(Rat(1), oi)
          r == tasks[t].result
      IN  IF r.interpretation = "INCONCLUSIVE"
          THEN r.confidence = "LOW"
          ELSE /\ r.confidence = "HIGH" <=> high
               /\ r.confidence = "MEDIUM" <=> medium
               /\ r.confidence = "LOW" <=> (~high /\ ~medium)

\* a pair with a price change of 1% and an OI change of exactly 1% has been
\* classified: a definite interpretation with confidence LOW
C21_Witness ==
  \E t \in Tasks :
    /\ Classified(t)
    /\ PriceChangePct(tasks[t].candles[1], tasks[t].candles[2]) = Rat(1)
    /\ OiChangePct(tasks[t].candles[1], tasks[t].candles[2]) = Rat(1)
    /\ tasks[t].result.interpretation = "LONG_BUILDUP"
    /\ tasks[t].result.confidence = "LOW"

\* a call of analyzeAndUpdateOIInterpretations that has returned its counts
Analyzed(t) == tasks[t].op = "analyzeOI" /\ tasks[t].pc = "done"

\* C22: for every batch size >= 1 and every stored series of n bars, the batch analysis
\* leaves each bar at time-sorted index 1 .. n-1 with the interpretation of the pair
\* (bar[i-1], bar[i]) and the bar at index 0 with none, and reports updated = n - 1
\* (0 when n < 2), whatever the batch size
C22_BatchAnalysisCoversSeries ==
  \A t \in Tasks :
    Analyzed(t) =>
      LET bars == Series(tasks[t].instrument)
          n == Len(bars)
      IN  /\ tasks[t].result.updated = IF n < 2 THEN 0 ELSE n - 1
          /\ n >= 1 => bars[1].oi_interpretation = None
          /\ \A k \in 2 .. n :
               bars[k].oi_interpretation =
                 Some(CalculateOIInterpretation(bars[k - 1], bars[k]).interpretation)

\* C23: a backtest given zero bars fails with ValidationError and creates no Position
\* and no StrategyResult: while no bar is stored, every backtest has failed, and both
\* tables are empty
C23_NoBarsFailsFast ==
  Len(candleTable) = 0 =>
    /\ positions = <<>>
    /\ strategyResults = <<>>
    /\ \A t \in Tasks :
         tasks[t].op = "backtest" =>
           tasks[t].pc = "failed" /\ tasks[t].result = "ValidationError"

\* a backtest over no bars has failed
C23_Witness ==
  /\ Len(candleTable) = 0
  /\ \E t \in Tasks : tasks[t].op = "backtest" /\ tasks[t].pc = "failed"

\* the positions of a strategy, in the order they were created
PositionsOfStrategy(id) ==
  LET Match(row) == row.strategy_id = Some(id)
  IN  SelectSeq(positions, Match)

\* where and how a position was opened and closed
Course(row) ==
  [entry_time |-> row.entry_time, entry_price |-> row.entry_price,
   status |-> row.status, exit_time |-> row.exit_time, exit_price |-> row.exit_price,
   pnl |-> row.pnl]

BacktestDone(t) == tasks[t].op = "backtest" /\ tasks[t].pc = "done"

\* the positions of the run of a backtest, as the ledger has them
RunPositions(t) ==
  [k \in 1 .. Len(tasks[t].simPositions) |-> positions[tasks[t].simPositions[k].id]]

\* C25: for every backtest run, total_trades is the number of positions of the run that
\* are CLOSED and winning_trades the number of those with pnl > 0, so that
\* 0 <= winning_trades <= total_trades; win_rate is winning_trades / total_trades
\* (0 without trades) and lies in [0, 1]; max_drawdown is >= 0
C25_TradeCountsAndRanges ==
  \A t \in Tasks :
    BacktestDone(t) =>
      LET IsClosed(p) == p.status = "CLOSED"
          IsWin(p) == p.pnl > 0
          closed == SelectSeq(RunPositions(t), IsClosed)
          r == tasks[t].result
      IN  /\ r.total_trades = Len(closed)
          /\ r.winning_trades = Len(SelectSeq(closed, IsWin))
          /\ 0 <= r.winning_trades /\ r.winning_trades <= r.total_trades
          /\ r.total_trades > 0 => r.win_rate = Norm(r.winning_trades, r.total_trades)
          /\ r.total_trades = 0 => r.win_rate = RZero
          /\ RLeq(RZero, r.win_rate) /\ RLeq(r.win_rate, Rat(1))
          /\ RLeq(RZero, r.max_drawdown)

\* a run has closed two positions, one of them winning, and has a drawdown
C25_Witness ==
  \E t \in Tasks :
    /\ BacktestDone(t)
    /\ tasks[t].result.total_trades = 2
    /\ tasks[t].result.winning_trades = 1
    /\ tasks[t].result.win_rate = <<1, 2>>
    /\ RLess(RZero, tasks[t].result.max_drawdown)

\* C26: when a backtest run produces no closed position, the strategy result it
\* creates and returns has win_rate = 0, max_drawdown = 0, sharpe_ratio = 0 and
\* total_pnl = 0, none of them null
C26_NoTradesGivesZeroMetrics ==
  \A t \in Tasks :
    (BacktestDone(t) /\ tasks[t].result.total_trades = 0) =>
      /\ tasks[t].result.win_rate = RZero
      /\ tasks[t].result.max_drawdown = RZero
      /\ tasks[t].result.sharpe_ratio = Some(ZeroRatio)
      /\ tasks[t].result.total_pnl = 0
      /\ strategyResults[Len(strategyResults)] = tasks[t].result

\* C27: at every point of a backtest run at most one position created by the run is
\* OPEN: a golden cross while a position of the run is open opens no new one
C27_OneOpenPositionPerRun ==
  \A t \in Tasks :
    tasks[t].op = "backtest" =>
      LET IsOpen(p) == p.status = "OPEN"
      IN  Len(SelectSeq(RunPositions(t), IsOpen)) <= 1

\* the mean close of the period bars ending at index i (zero-based), clipped at the
\* start of the series
MeanClose(candles, i, period) ==
  LET first == IF i - period + 1 > 0 THEN i - period + 1 ELSE 0
  IN  Norm(SumCloses(candles, first, i), i - first + 1)

\* a golden cross at index i: prevShort <= prevLong and shortSMA > longSMA
GoldenCross(candles, i, strategy) ==
  /\ RLeq(MeanClose(candles, i - 1, ShortPeriod(strategy)),
          MeanClose(candles, i - 1, LongPeriod(strategy)))
  /\ RLess(MeanClose(candles, i, LongPeriod(strategy)),
           MeanClose(candles, i, ShortPeriod(strategy)))

\* a backtest about to evaluate the signals at its index
Evaluating(t) ==
  /\ tasks[t].op = "backtest"
  /\ tasks[t].pc = "simLoop"
  /\ tasks[t].idx < Len(tasks[t].candles)

\* no position of the run is OPEN
NoneOpen(t) == \A k \in 1 .. Len(RunPositions(t)) : RunPositions(t)[k].status # "OPEN"

\* C28: the simulator evaluates signals only at indices long_period .. n-1; at such an
\* index i with a golden cross and no position of the run open it opens exactly one BUY
\* position with entry price close[i], quantity 100, the entry time of bar i and the
\* strategy's id; at an index without a golden cross it opens none
C28_GoldenCrossOpensOne ==
  [][\A t \in Tasks :
       (Evaluating(t) /\ tasks'[t] # tasks[t]) =>
         LET i == tasks[t].idx
             candles == tasks[t].candles
             strategy == tasks[t].strategy[1]
             golden == GoldenCross(candles, i, strategy)
         IN  /\ i >= LongPeriod(strategy)
             /\ (golden /\ NoneOpen(t)) =>
                  positions' = Append(positions,
                    [instrument |-> candles[i + 1].instrument, side |-> "BUY",
                     entry_price |-> candles[i + 1].close_price, exit_price |-> None,
                     quantity |-> 100, status |-> "OPEN", pnl |-> 0,
                     entry_time |-> candles[i + 1].epoch_time, exit_time |-> None,
                     strategy_id |-> Some(strategy.id)])
             /\ ~golden => Len(positions') = Len(positions)]_vars

\* a run has opened its first position at its first index, where the short and the long
\* average of the bar before were equal
C28_Witness ==
  \E t \in Tasks :
    /\ tasks[t].op = "backtest"
    /\ tasks[t].pc = "simLoop"
    /\ tasks[t].idx = LongPeriod(tasks[t].strategy[1]) + 1
    /\ Len(tasks[t].simPositions) = 1
    /\ MeanClose(tasks[t].candles, tasks[t].idx - 2, ShortPeriod(tasks[t].strategy[1]))
         = MeanClose(tasks[t].candles, tasks[t].idx - 2, LongPeriod(tasks[t].strategy[1]))
    /\ positions[tasks[t].simPositions[1].id].entry_price
         = tasks[t].candles[tasks[t].idx].close_price

\* a death cross at index i: prevShort >= prevLong and shortSMA < longSMA
DeathCross(candles, i, strategy) ==
  /\ RLeq(MeanClose(candles, i - 1, LongPeriod(strategy)),
          MeanClose(candles, i - 1, ShortPeriod(strategy)))
  /\ RLess(MeanClose(candles, i, ShortPeriod(strategy)),
           MeanClose(candles, i, LongPeriod(strategy)))

\* the id of the most recently opened position of the run that is still OPEN
MostRecentOpen(t) ==
  LET open == {k \in 1 .. Len(tasks[t].simPositions) : RunPositions(t)[k].status = "OPEN"}
      last == CHOOSE k \in open : \A j \in open : j <= k
  IN  tasks[t].simPositions[last].id

\* C29: at an index i with a death cross, if any position of the run is OPEN the
\* simulator closes the most recently opened still-open position of the run at exit
\* price close[i] and the exit time of bar i, and closes no other; if no position of the
\* run is open it changes nothing. No position is opened and closed at the same index
C29_DeathCrossClosesMostRecent ==
  [][\A t \in Tasks :
       tasks'[t] # tasks[t] =>
         LET i == tasks[t].idx
             candles == tasks[t].candles
         IN  /\ (Evaluating(t) /\ DeathCross(candles, i, tasks[t].strategy[1])) =>
                  /\ positions' = positions
                  /\ IF NoneOpen(t)
                     THEN tasks'[t].pc = "simLoop" /\ tasks'[t].idx = i + 1
                     ELSE tasks'[t].pc = "simCloseWrite" /\ tasks'[t].idx = i
             /\ (tasks[t].op = "backtest" /\ tasks[t].pc = "simCloseWrite") =>
                  LET id == MostRecentOpen(t)
                      close == candles[i + 1].close_price
                  IN  /\ Len(positions') = Len(positions)
                      /\ positions'[id].status = "CLOSED"
                      /\ positions'[id].exit_price = Some(close)
                      /\ positions'[id].exit_time = Some(candles[i + 1].epoch_time)
                      /\ \A k \in 1 .. Len(positions) :
                           k # id => positions'[k] = positions[k]
             /\ tasks[t].op = "backtest" =>
                  \A k \in 1 .. Len(positions') :
                    positions'[k].exit_time # Some(positions'[k].entry_time)]_vars

\* C30: the bars that backtestStrategy fetches and hands to the simulator are in
\* ascending epoch_time, so that index i-1 is the earlier bar, and the start timestamp
\* of the strategy result is not later than its end timestamp
C30_BarsAscendingStartBeforeEnd ==
  \A t \in Tasks :
    /\ tasks[t].op = "backtest" /\ tasks[t].pc # "failed" => IsAscending(tasks[t].candles)
    /\ BacktestDone(t) => tasks[t].result.start_date[1] <= tasks[t].result.end_date[1]

RECURSIVE FlooredDrawdown(_, _, _, _)
\* the largest (peak - running) / max(peak, 1) over a walk of pnl values
FlooredDrawdown(pnls, peak, running, largest) ==
  IF Len(pnls) = 0 THEN largest
  ELSE LET now == RAdd(running, pnls[1])
           top == IF RLess(peak, now) THEN now ELSE peak
           drawdown == RDiv(RSub(top, now), IF RLess(top, Rat(1)) THEN Rat(1) ELSE top)
       IN  FlooredDrawdown(Tail(pnls), top, now,
                           IF RLess(largest, drawdown) THEN drawdown ELSE largest)

\* C31: max_drawdown is the maximum, over the closed positions walked in order, of
\* (peak - running) / max(peak, 1), running the cumulative pnl and peak its running
\* maximum from 0: the divisor is 1 whenever peak <= 1, also when 0 < peak < 1
C31_DrawdownDividesByFlooredPeak ==
  \A t \in Tasks :
    /\ (tasks[t].op = "maxDrawdown" /\ tasks[t].pc = "done") =>
         tasks[t].result = FlooredDrawdown(tasks[t].todo, RZero, RZero, RZero)
    /\ BacktestDone(t) =>
         LET IsClosed(p) == p.status = "CLOSED"
         IN  tasks[t].result.max_drawdown =
               FlooredDrawdown(Pnls(SelectSeq(Trades(t), IsClosed)), RZero, RZero, RZero)

\* C32: for every bar pair whose previous bar has open_interest 0 the OI change is
\* taken as 0%: the OI direction is FLAT, the interpretation INCONCLUSIVE and the
\* confidence LOW, however large the current open interest and the price change are
C32_ZeroPreviousInterestIsInconclusive ==
  \A t \in Tasks :
    (Classified(t) /\ tasks[t].candles[1].open_interest = 0) =>
      /\ tasks[t].result.oiDirection = "FLAT"
      /\ tasks[t].result.interpretation = "INCONCLUSIVE"
      /\ tasks[t].result.confidence = "LOW"

\* a pair classified whose open interest rises from 0 to 210 while the price rises 1%
C32_Witness ==
  \E t \in Tasks :
    /\ Classified(t)
    /\ tasks[t].candles[1].open_interest = 0
    /\ tasks[t].candles[2].open_interest = 210
    /\ tasks[t].candles[1].close_price = 2000
    /\ tasks[t].candles[2].close_price = 2020
    /\ tasks[t].result.interpretation = "INCONCLUSIVE"

\* a storeCandles call on a batch that passed validateCandles has ended
Stored(t) ==
  /\ tasks[t].op = "storeCandles"
  /\ tasks[t].pc \in {"done", "failed"}
  /\ tasks[t].result # "ValidationError"

\* the stored bar of an instrument at an epoch_time
BarAt(instrument, epochTime) ==
  LET k == CHOOSE k \in 1 .. Len(candleTable) :
             /\ candleTable[k].instrument = instrument
             /\ candleTable[k].epoch_time = epochTime
  IN  candleTable[k]

\* C33: no interpretation is derived from a pair whose previous bar is not strictly
\* earlier than the current bar: when a storeCandles batch has two bars of one
\* epoch_time, or bars out of order, that pair is rejected and the bar gets no
\* interpretation, while the other pairs of the batch are still classified and stored
C33_OffendingPairRejected ==
  \A t \in Tasks :
    Stored(t) =>
      LET sorted == ByEpochTime(tasks[t].todo)
          n == Len(sorted)
      IN  /\ tasks[t].pc = "done"
          /\ \A k \in 2 .. n :
               IF sorted[k - 1].epoch_time < sorted[k].epoch_time
               THEN (\A j \in k + 1 .. n : sorted[j].epoch_time # sorted[k].epoch_time) =>
                      BarAt(tasks[t].instrument, sorted[k].epoch_time).oi_interpretation
                        = Some(CalculateOIInterpretation(sorted[k - 1], sorted[k]).interpretation)
               ELSE tasks[t].candles[k].oiInterpretation = None

\* every stored interpretation of the series is the one of the bar and the bar stored
\* immediately before it
Coherent(bars) ==
  \A k \in 1 .. Len(bars) :
    bars[k].oi_interpretation # None =>
      /\ k > 1
      /\ bars[k].oi_interpretation
           = Some(CalculateOIInterpretation(bars[k - 1], bars[k]).interpretation)

\* the series is as one run of the batch analysis leaves it
FullyAnalyzed(bars) ==
  /\ Len(bars) >= 2
  /\ bars[1].oi_interpretation = None
  /\ \A k \in 2 .. Len(bars) :
       bars[k].oi_interpretation
         = Some(CalculateOIInterpretation(bars[k - 1], bars[k]).interpretation)

\* C34: the stored interpretation is a coherent cache: after any sequence of
\* storeCandles calls on one series, upserts of stored bars and bars earlier than the
\* stored ones included, every bar's oi_interpretation is absent or equal to the
\* classification of its immediate predecessor in the stored series and the bar; and a
\* second run of analyzeAndUpdateOIInterpretations right after a first changes nothing
C34_InterpretationIsCoherentCache ==
  /\ [](\A t \in Tasks :
          (tasks[t].op = "storeCandles" /\ tasks[t].pc = "done") =>
            Coherent(Series(tasks[t].instrument)))
  /\ [][\A t \in Tasks :
          (tasks[t].op = "analyzeOI" /\ FullyAnalyzed(Series(tasks[t].instrument))) =>
            candleTable' = candleTable]_vars

RECURSIVE SumOver(_, _)
\* the sum of f over the indices in S
SumOver(f, S) ==
  IF S = {} THEN 0
  ELSE LET k == CHOOSE k \in S : TRUE IN f[k] + SumOver(f, S \ {k})

\* C35: every position the backtest simulator opens or closes goes through the ledger
\* like a fill: every simulated open is in the quantity and the average price of the
\* instrument's holding, every simulated close has its pnl in the holding's
\* realized_pnl, and the simulated positions carry the strategy's id. On a ledger
\* with no fills, a run that has opened positions has a holding of their quantities
\* at their mean entry price, with the pnl of its closed positions realized
C35_SimulatedTradesReachHolding ==
  \A t \in Tasks :
    (tasks[t].op = "backtest" /\ tasks[t].pc \in {"simLoop", "done"}
       /\ orders = <<>> /\ Len(tasks[t].simPositions) > 0) =>
      LET run == RunPositions(t)
          all == 1 .. Len(run)
          closed == {k \in all : run[k].status = "CLOSED"}
          quantity == SumOver([k \in all |-> run[k].quantity], all)
          cost == SumOver([k \in all |-> run[k].quantity * run[k].entry_price], all)
          realized == SumOver([k \in all |-> run[k].pnl], closed)
          instrument == tasks[t].instrument
      IN  /\ \A k \in all : run[k].strategy_id = Some(tasks[t].strategy[1].id)
          /\ instrument \in DOMAIN holdings
          /\ holdings[instrument].quantity = quantity
          /\ holdings[instrument].average_price = Norm(cost, quantity)
          /\ holdings[instrument].realized_pnl = Rat(realized)

\* C36: in every state reached by validated fills, position closes and price refreshes,
\* a holding of quantity 0 has average_price 0 and a holding of any other quantity has
\* average_price > 0
C36_AveragePriceZeroIffFlat ==
  \A i \in DOMAIN holdings :
    IF holdings[i].quantity = 0
    THEN holdings[i].average_price = RZero
    ELSE RLess(RZero, holdings[i].average_price)

\* a holding that two fills have brought back to quantity 0
C36_Witness ==
  \E i \in DOMAIN holdings :
    /\ holdings[i].quantity = 0
    /\ holdings[i].average_price = RZero
    /\ Cardinality(FilledOrders) >= 2

\* C37: FILLED and CANCELLED are terminal when calls run one at a time: a fillOrder or
\* cancelOrder on an order that is not PENDING fails with ValidationError (with
\* NotFoundError for an unknown id) and changes no order, holding or position; every
\* order created through createOrder ends FILLED with filled_quantity = quantity and
\* filled_price = price, so that a later cancelOrder on it fails
C37_FilledAndCancelledAreTerminal ==
  [][/\ \A k \in 1 .. Len(orders) : orders[k].status # "PENDING" => orders'[k] = orders[k]
     /\ \A t \in Tasks :
          (tasks[t].op = "idle" /\ tasks'[t].op \in {"fillOrder", "cancelOrder"}) =>
            IF tasks'[t].pc = "failed"
            THEN /\ tasks'[t].result \in {"ValidationError", "NotFoundError"}
                 /\ orders' = orders /\ holdings' = holdings /\ positions' = positions
                 /\ tasks'[t].op = "cancelOrder" =>
                      (tasks'[t].result = "NotFoundError"
                         <=> tasks'[t].orderId \notin 1 .. Len(orders))
            ELSE orders[tasks'[t].orderId].status = "PENDING"
     /\ \A t \in Tasks :
          (tasks'[t].op = "createOrder" /\ tasks'[t].pc = "done") =>
            LET order == orders'[tasks'[t].orderId]
            IN  /\ order.status = "FILLED"
                /\ order.filled_quantity = order.quantity
                /\ order.filled_price = Some(order.price)]_vars

\* a cancelOrder that failed with ValidationError on an order that createOrder filled,
\* beside an order that was cancelled before
C37_Witness ==
  \E t \in Tasks :
    /\ tasks[t].op = "cancelOrder" /\ tasks[t].pc = "failed"
    /\ tasks[t].result = "ValidationError"
    /\ tasks[t].orderId \in 1 .. Len(orders)
    /\ orders[tasks[t].orderId].status = "FILLED"
    /\ \E k \in 1 .. Len(orders) : orders[k].status = "CANCELLED"

\* C38: however a cancelOrder interleaves with the fill of the same order, and however
\* two fills of one order interleave, an order is applied to the holding and produces a
\* position at most once, and an order whose cancelOrder succeeded is never applied and
\* never produces a position: there are no more positions than orders that are not
\* CANCELLED, and while every order is CANCELLED there is no holding
C38_CancelledOrderNeverApplied ==
  LET live == {k \in 1 .. Len(orders) : orders[k].status # "CANCELLED"}
  IN  /\ Len(positions) <= Cardinality(live)
      /\ (orders # <<>> /\ live = {}) => DOMAIN holdings = {}

\* C39: a closePosition executed on its own leaves every Holding's quantity,
\* average_price and unrealized_pnl as they were and keeps total_value =
\* quantity x average_price, so that at most realized_pnl changes; it creates no
\* Holding, in particular none for a position whose instrument has no Holding.
C39_CloseKeepsHoldingExposure ==
  [][(\E t \in Tasks : tasks[t].op = "closePosition" \/ tasks'[t].op = "closePosition")
       => /\ DOMAIN holdings' = DOMAIN holdings
          /\ \A i \in DOMAIN holdings :
               /\ holdings'[i].quantity = holdings[i].quantity
               /\ holdings'[i].average_price = holdings[i].average_price
               /\ holdings'[i].unrealized_pnl = holdings[i].unrealized_pnl
               /\ holdings'[i].total_value
                    = RMul(Rat(holdings[i].quantity), holdings[i].average_price)]_vars

\* a position created by a fill has been closed with a non-zero pnl while its
\* Holding still has exposure
C39_Witness ==
  \E t \in Tasks :
    /\ tasks[t].op = "closePosition"
    /\ tasks[t].pc = "done"
    /\ tasks[t].pos[1].strategy_id = None
    /\ tasks[t].pos[1].pnl # 0
    /\ tasks[t].pos[1].instrument \in DOMAIN holdings
    /\ holdings[tasks[t].pos[1].instrument].quantity # 0
    /\ holdings[tasks[t].pos[1].instrument].realized_pnl # RZero

\* C40: analyzeAndUpdateOIInterpretations terminates for every integer batchSize,
\* zero and the negative ones included: a call that has entered the loop over the
\* batches of a series of at least 2 bars reaches its return.
C40_AnalysisTerminates ==
  \A t \in Tasks :
    (tasks[t].op = "analyzeOI" /\ tasks[t].pc = "oiBatch")
      ~> (tasks[t].op = "analyzeOI" /\ tasks[t].pc = "done")

====
